---- MODULE Spec2Model ----
(***************************************************************************)
(* frida-compile: the bundler core (createBundler, resolveModuleReference, *)
(* detectModuleType, processJSModule) and the watch controller (watch) of  *)
(* src/src/system.ts, as a state machine.                                  *)
(*                                                                         *)
(* Strings that the code takes apart are modelled structurally: a path or  *)
(* reference name is the sequence of its "/"-separated segments, and a     *)
(* segment is the sequence of its "."-separated parts, so                  *)
(*   "/p/agent/greet.js" is << <<"">>, <<"p">>, <<"agent">>, <<"greet","js">> >> *)
(*   "./greet"           is << <<"","">>, <<"greet">> >>                   *)
(*   "@frida/buffer"     is << <<"@frida">>, <<"buffer">> >>               *)
(***************************************************************************)
EXTENDS Integers, Sequences, FiniteSets, TLC

VARIABLES
    files,           \* the file system: path -> content
    options          \* the options of the call besides assets: sourceMaps, onDiagnostic


(***************************************************************************)
(* String primitives on the structural representation.                     *)
(***************************************************************************)

\* the string s ends in "." \o ext (String.prototype.endsWith with a dotted suffix)
EndsWithExt(s, ext) ==
    /\ Len(s) > 0
    /\ Len(s[Len(s)]) >= 2
    /\ s[Len(s)][Len(s[Len(s)])] = ext

\* s + "." + ext
AppendExt(s, ext) ==
    [s EXCEPT ![Len(s)] = Append(@, ext)]

\* name.startsWith(".")
StartsWithDot(s) ==
    /\ Len(s) > 0
    /\ Len(s[1]) >= 2
    /\ s[1][1] = ""

\* crosspath.isAbsolute: the string starts with "/"
isAbsolute(s) ==
    /\ Len(s) >= 2
    /\ s[1] = <<"">>

\* the segments "." and ".." and the empty segment
DotSeg == <<"", "">>
DotDotSeg == <<"", "", "">>
EmptySeg == <<"">>

RECURSIVE NormalizeSegs(_, _)
NormalizeSegs(rest, acc) ==
    IF rest = <<>> THEN acc
    ELSE LET h == Head(rest) IN
         IF h = DotSeg \/ h = EmptySeg THEN NormalizeSegs(Tail(rest), acc)
         ELSE IF h = DotDotSeg
              THEN NormalizeSegs(Tail(rest),
                                 IF Len(acc) > 0 /\ acc[Len(acc)] # DotDotSeg
                                 THEN SubSeq(acc, 1, Len(acc) - 1)
                                 ELSE IF Len(acc) = 0 THEN <<DotDotSeg>> ELSE Append(acc, h))
              ELSE NormalizeSegs(Tail(rest), Append(acc, h))

\* crosspath.normalize of an absolute path, or of a relative one
normalize(s) ==
    IF Len(s) >= 1 /\ s[1] = EmptySeg
    THEN <<EmptySeg>> \o
         LET n == NormalizeSegs(Tail(s), <<>>) IN
         \* ".." above the root is dropped
         IF Len(n) > 0 /\ n[1] = DotDotSeg THEN Tail(n) ELSE n
    ELSE NormalizeSegs(s, <<>>)

\* crosspath.join(a, b): a + "/" + b, normalized
join(a, b) == normalize(a \o b)

\* crosspath.dirname
dirname(s) ==
    IF Len(s) <= 2 /\ Len(s) >= 1 /\ s[1] = EmptySeg THEN <<EmptySeg>>
    ELSE IF Len(s) <= 1 THEN <<DotSeg>>
    ELSE SubSeq(s, 1, Len(s) - 1)

\* prefix is a leading run of the segments of s
HasLeadingSegments(s, prefix) ==
    /\ Len(prefix) <= Len(s)
    /\ SubSeq(s, 1, Len(prefix)) = prefix

\* the parts of the model's names of which one goes on where another ends
ProperPrefixes ==
    { <<"frida-compile", "frida-compiler">>, <<"p", "package">>, <<"js", "json">>,
      <<"d", "data">>, <<"d", "dep">> }

\* part.startsWith(prefix)
PartStartsWith(part, prefix) ==
    prefix = "" \/ part = prefix \/ <<prefix, part>> \in ProperPrefixes

\* segment.startsWith(prefix): the parts before the last one of the prefix
\* are the same, and that one may end inside a part of the segment
SegmentStartsWith(segment, prefix) ==
    /\ Len(prefix) <= Len(segment)
    /\ SubSeq(segment, 1, Len(prefix) - 1) = SubSeq(prefix, 1, Len(prefix) - 1)
    /\ Len(prefix) > 0 => PartStartsWith(segment[Len(prefix)], prefix[Len(prefix)])

\* String.prototype.startsWith: character by character, so the prefix may
\* end inside a segment of s
startsWith(s, prefix) ==
    /\ Len(prefix) <= Len(s)
    /\ SubSeq(s, 1, Len(prefix) - 1) = SubSeq(prefix, 1, Len(prefix) - 1)
    /\ Len(prefix) > 0 => SegmentStartsWith(s[Len(prefix)], prefix[Len(prefix)])

\* path.substring(prefix.length) for a prefix the path starts with: the
\* remainder keeps its leading "/"
substringAfter(s, prefix) ==
    <<EmptySeg>> \o SubSeq(s, Len(prefix) + 1, Len(s))

\* the index of the last segment holding a ".", 0 when there is none
RECURSIVE LastDotSeg(_, _)
LastDotSeg(s, i) ==
    IF i = 0 THEN 0
    ELSE IF Len(s[i]) >= 2 THEN i
    ELSE LastDotSeg(s, i - 1)

changeFileExtension(path, ext) ==
    LET i == LastDotSeg(path, Len(path)) IN
    IF i = 0 THEN << <<"", ext>> >>
    ELSE Append(SubSeq(path, 1, i - 1),
                Append(SubSeq(path[i], 1, Len(path[i]) - 1), ext))

(***************************************************************************)
(* Array.prototype.sort() on strings: code-unit order.  AtomOrder lists    *)
(* the parts the model's strings are made of, and the separators, in that  *)
(* order; no part continues another one with a character below ".".        *)
(***************************************************************************)
AtomOrder ==
    << "", ".", "/", "@frida", "agent", "buffer", "bundle", "d", "data", "dep", "foo",
       "frida-compile", "frida-compiler", "gone", "greet", "index", "js", "json", "legacy", "lib",
       "map", "node:buffer", "node_modules", "nope", "p", "package", "ts",
       "undefined", "util" >>

Rank(a) == CHOOSE i \in 1..Len(AtomOrder) : AtomOrder[i] = a

RECURSIVE JoinWith(_, _)
JoinWith(parts, sep) ==
    IF Len(parts) = 0 THEN <<>>
    ELSE IF Len(parts) = 1 THEN parts[1]
    ELSE parts[1] \o <<sep>> \o JoinWith(Tail(parts), sep)

\* the string as its sequence of parts and separators
Flatten(s) == JoinWith([i \in 1..Len(s) |-> JoinWith([j \in 1..Len(s[i]) |-> <<s[i][j]>>], ".")], "/")

RECURSIVE TokensLess(_, _)
TokensLess(x, y) ==
    IF Len(y) = 0 THEN FALSE
    ELSE IF Len(x) = 0 THEN TRUE
    ELSE IF Head(x) = Head(y) THEN TokensLess(Tail(x), Tail(y))
    ELSE Rank(Head(x)) < Rank(Head(y))

\* a < b as JavaScript strings
StrLess(a, b) == TokensLess(Flatten(a), Flatten(b))

\* the sorted list with one more string, put before the first one it is below
RECURSIVE InsertSorted(_, _)
InsertSorted(q, x) ==
    IF q = <<>> THEN <<x>>
    ELSE IF StrLess(x, Head(q)) THEN <<x>> \o q
    ELSE <<Head(q)>> \o InsertSorted(Tail(q), x)

\* Array.from(set).sort()
RECURSIVE SortStrings(_)
SortStrings(S) ==
    IF S = {} THEN <<>>
    ELSE LET x == CHOOSE y \in S : TRUE
         IN InsertSorted(SortStrings(S \ {x}), x)

IsSorted(q) == \A i \in 1..(Len(q) - 1) : StrLess(q[i], q[i + 1])

Range(q) == {q[i] : i \in 1..Len(q)}

\* Set.prototype.add: a Set keeps its insertion order
SetAdd(set, x) == IF x \in Range(set) THEN set ELSE Append(set, x)

(***************************************************************************)
(* File contents.  A JavaScript or TypeScript file is its revision and the *)
(* module references of its syntax tree in document order; a package.json  *)
(* is its "type", "module" and "main" fields (<<>> when absent).           *)
(***************************************************************************)
Import(name) == [k |-> "import", name |-> name]
ExportFrom(name) == [k |-> "export", name |-> name]
Require(name) == [k |-> "require", name |-> name]

\* A JSON value as JSON.parse returns it: its type ("object", "array",
\* "null" or "scalar") and its own keys in Object.keys order; for the module
\* synthesized from it, the binding and the named exports as well.
JsonValue(shape, keys) == [shape |-> shape, keys |-> keys, binding |-> "", exports |-> <<>>]
NoJson == JsonValue("none", <<>>)
\* {"a": ...}
PlainJson == JsonValue("object", <<"a">>)

JsFile(v, refs) == [kind |-> "js", v |-> v, refs |-> refs, sm |-> "none", useStrict |-> FALSE, json |-> NoJson,
                    ptype |-> "", module |-> <<>>, main |-> <<>>]
JsonFile(v) == [kind |-> "json", v |-> v, refs |-> <<>>, sm |-> "none", useStrict |-> FALSE, json |-> PlainJson,
                ptype |-> "", module |-> <<>>, main |-> <<>>]
PkgFile(ptype, module, main) == [kind |-> "pkg", v |-> 1, refs |-> <<>>, sm |-> "none", useStrict |-> FALSE, json |-> NoJson,
                                 ptype |-> ptype, module |-> module, main |-> main]
\* what readFile returns for a file that is not there
Undefined == [kind |-> "undefined", v |-> 0, refs |-> <<>>, sm |-> "none", useStrict |-> FALSE, json |-> NoJson,
              ptype |-> "", module |-> <<>>, main |-> <<>>]

(***************************************************************************)
(* The system interface (ts.System) over a file table fs: path -> content. *)
(***************************************************************************)
fileExists(fs, path) == path \in DOMAIN fs

directoryExists(fs, path) ==
    \E f \in DOMAIN fs : Len(f) > Len(path) /\ HasLeadingSegments(f, path)

readFile(fs, path) == IF path \in DOMAIN fs THEN fs[path] ELSE Undefined

(***************************************************************************)
(* Roots and the asset catalog.                                            *)
(***************************************************************************)
projectRoot == <<EmptySeg, <<"p">> >>

\* detectCompilerRoot() with FRIDA_COMPILE set
compilerRoot == <<EmptySeg, <<"frida-compile">> >>

NodeModules == << <<"node_modules">> >>
FridaScope == << <<"@frida">> >>

ShimDirNotFound == <<>>

queryDefaultAssets(fs) ==
    LET projectNodeModulesDir == join(projectRoot, NodeModules)
        compilerNodeModulesDir == join(compilerRoot, NodeModules)
        compilerParent == dirname(compilerRoot)
        shimDir ==
            IF directoryExists(fs, join(compilerNodeModulesDir, FridaScope))
            THEN compilerNodeModulesDir
            ELSE IF directoryExists(fs, join(projectNodeModulesDir, FridaScope))
            THEN projectNodeModulesDir
            ELSE IF /\ compilerParent[Len(compilerParent)] = <<"node_modules">>
                    /\ directoryExists(fs, join(compilerParent, FridaScope))
            THEN compilerParent
            ELSE ShimDirNotFound
        bufferShim == join(shimDir, << <<"@frida">>, <<"buffer">> >>)
    IN [ projectNodeModulesDir |-> projectNodeModulesDir,
         compilerNodeModulesDir |-> compilerNodeModulesDir,
         shimDir |-> shimDir,
         shims |-> ( << <<"buffer">> >> :> bufferShim
                  @@ << <<"node:buffer">> >> :> bufferShim ) ]


IndexJs == << <<"index", "js">> >>
PackageJson == << <<"package", "json">> >>
LinkedCompilerName == << <<"frida-compile">> >>

\* tokens[0].startsWith("@")
StartsWithAt(token) == token[1] \in {"@frida"}

(***************************************************************************)
(* detectModuleType(modPath, sys)                                          *)
(***************************************************************************)
\* a walk that goes on past a manifest that does not say "esm"
RECURSIVE DetectFromAnyEsm(_, _)
DetectFromAnyEsm(curDir, fs) ==
    LET rawPkgMeta == readFile(fs, join(curDir, PackageJson)) IN
    IF rawPkgMeta # Undefined /\ (rawPkgMeta.ptype = "module" \/ rawPkgMeta.module # <<>>)
    THEN "esm"
    ELSE IF dirname(curDir) = curDir THEN "cjs"
    ELSE DetectFromAnyEsm(dirname(curDir), fs)

RECURSIVE DetectFrom(_, _)
DetectFrom(curDir, fs) ==
    LET rawPkgMeta == readFile(fs, join(curDir, PackageJson)) IN
    IF rawPkgMeta # Undefined
    THEN IF rawPkgMeta.ptype = "module" \/ rawPkgMeta.module # <<>> THEN "esm" ELSE "cjs"
    ELSE IF dirname(curDir) = curDir THEN "cjs"
    ELSE DetectFrom(dirname(curDir), fs)

detectModuleType(modPath, fs) == DetectFrom(dirname(modPath), fs)

(***************************************************************************)
(* resolveModuleReference(ref, assets, system): [ok, path, needsAlias];    *)
(* ok = FALSE is the thrown "unable to resolve module".                    *)
(***************************************************************************)
\* a resolver that joins the subpath to every shim root, and never looks at
\* the referrer
ResolveBaseJoined(refName, requesterPath, assets) ==
    IF isAbsolute(refName) THEN [path |-> refName, needsAlias |-> FALSE]
    ELSE
        LET tokens == refName
            scoped == StartsWithAt(tokens[1])
            pkgName == IF scoped
                       THEN <<tokens[1], IF Len(tokens) >= 2 THEN tokens[2] ELSE <<"undefined">> >>
                       ELSE <<tokens[1]>>
            subPath == IF scoped THEN SubSeq(tokens, 3, Len(tokens))
                       ELSE SubSeq(tokens, 2, Len(tokens))
        IN IF pkgName \in DOMAIN assets.shims
           THEN [path |-> join(assets.shims[pkgName], subPath), needsAlias |-> TRUE]
           ELSE [path |-> join(assets.projectNodeModulesDir, tokens),
                 needsAlias |-> Len(subPath) > 0]

\* lines 3223-3258: the path before any look at the file system
ResolveBase(refName, requesterPath, assets) ==
    IF isAbsolute(refName) THEN [path |-> refName, needsAlias |-> FALSE]
    ELSE
        LET tokens == refName
            scoped == StartsWithAt(tokens[1])
            pkgName == IF scoped
                       THEN <<tokens[1], IF Len(tokens) >= 2 THEN tokens[2] ELSE <<"undefined">> >>
                       ELSE <<tokens[1]>>
            subPath == IF scoped THEN SubSeq(tokens, 3, Len(tokens))
                       ELSE SubSeq(tokens, 2, Len(tokens))
        IN IF pkgName \in DOMAIN assets.shims
           THEN LET shimPath == assets.shims[pkgName] IN
                [path |-> IF EndsWithExt(shimPath, "js") THEN shimPath
                          ELSE join(shimPath, subPath),
                 needsAlias |-> TRUE]
           ELSE LET linkedCompilerRoot == join(assets.projectNodeModulesDir, LinkedCompilerName) IN
                [path |-> IF \/ startsWith(requesterPath, compilerRoot)
                             \/ startsWith(requesterPath, linkedCompilerRoot)
                             \/ startsWith(requesterPath, assets.shimDir)
                          THEN join(assets.shimDir, tokens)
                          ELSE join(assets.projectNodeModulesDir, tokens),
                 needsAlias |-> Len(subPath) > 0]

\* a directory step that reads "main" before "module"
ResolveDirectoryMainFirst(r, fs) ==
    IF ~directoryExists(fs, r.path) THEN r
    ELSE LET rawPkgMeta == readFile(fs, join(r.path, PackageJson)) IN
         IF rawPkgMeta # Undefined
         THEN LET pkgMain == IF rawPkgMeta.main # <<>> THEN rawPkgMeta.main
                             ELSE IF rawPkgMeta.module # <<>> THEN rawPkgMeta.module
                             ELSE IndexJs
                  pkgEntrypoint == join(r.path, pkgMain)
              IN [path |-> IF directoryExists(fs, pkgEntrypoint)
                           THEN join(pkgEntrypoint, IndexJs)
                           ELSE pkgEntrypoint,
                  needsAlias |-> TRUE]
         ELSE [path |-> join(r.path, IndexJs), needsAlias |-> r.needsAlias]

\* lines 3260-3275: a directory is entered through its package.json or index.js
ResolveDirectory(r, fs) ==
    IF ~directoryExists(fs, r.path) THEN r
    ELSE LET rawPkgMeta == readFile(fs, join(r.path, PackageJson)) IN
         IF rawPkgMeta # Undefined
         THEN LET pkgMain == IF rawPkgMeta.module # <<>> THEN rawPkgMeta.module
                             ELSE IF rawPkgMeta.main # <<>> THEN rawPkgMeta.main
                             ELSE IndexJs
                  pkgEntrypoint == join(r.path, pkgMain)
              IN [path |-> IF directoryExists(fs, pkgEntrypoint)
                           THEN join(pkgEntrypoint, IndexJs)
                           ELSE pkgEntrypoint,
                  needsAlias |-> TRUE]
         ELSE [path |-> join(r.path, IndexJs), needsAlias |-> r.needsAlias]

\* a resolver that does not look whether the file it names is there
resolveModuleReferenceUnchecked(ref, assets, fs) ==
    LET r == ResolveDirectory(ResolveBase(ref.name, ref.referrer, assets), fs) IN
    [ok |-> TRUE, path |-> r.path, needsAlias |-> r.needsAlias]

resolveModuleReference(ref, assets, fs) ==
    LET r == ResolveDirectory(ResolveBase(ref.name, ref.referrer, assets), fs) IN
    IF fileExists(fs, r.path)
    THEN [ok |-> TRUE, path |-> r.path, needsAlias |-> r.needsAlias]
    ELSE IF fileExists(fs, AppendExt(r.path, "js"))
    THEN [ok |-> TRUE, path |-> AppendExt(r.path, "js"), needsAlias |-> r.needsAlias]
    ELSE [ok |-> FALSE, path |-> <<>>, needsAlias |-> FALSE]

(***************************************************************************)
(* assetNameFromFilePath(path): [ok, name]; ok = FALSE is the thrown       *)
(* "unexpected file path".                                                 *)
(***************************************************************************)
assetNameFromFilePath(path) ==
    IF startsWith(path, compilerRoot)
    THEN [ok |-> TRUE, name |-> substringAfter(path, compilerRoot)]
    ELSE IF startsWith(path, projectRoot)
    THEN [ok |-> TRUE, name |-> substringAfter(path, projectRoot)]
    ELSE [ok |-> FALSE, name |-> <<>>]

(***************************************************************************)
(* processJSModule(mod, processedModules, pendingModules, jsonFilePaths):  *)
(* the references of mod.file in document order; require() calls count in  *)
(* CommonJS modules only.                                                  *)
(***************************************************************************)
\* The nodes of the syntax tree the scan tells apart, besides Import,
\* ExportFrom and Require (the call require("name")): an export declaration
\* without module specifier, a string literal, any other expression, and a
\* call with its callee ("require", another identifier, or an expression
\* that is no identifier) and its arguments.
ExportLocal == [k |-> "exportlocal"]
StringLiteral(text) == [k |-> "string", text |-> text]
OtherExpression == [k |-> "other"]
Call(callee, args) == [k |-> "call", callee |-> callee, args |-> args]

\* a visitCallExpression that takes the first argument of a call of require,
\* however many there are
visitCallExpressionFirstArgument(node) ==
    IF node.callee # "require" THEN <<>>
    ELSE IF Len(node.args) = 0 THEN <<>>
    ELSE IF node.args[1].k # "string" THEN <<>>
    ELSE <<Require(node.args[1].text)>>

\* lines 3320-3341
visitCallExpression(node) ==
    IF node.callee # "require" THEN <<>>
    ELSE IF Len(node.args) # 1 THEN <<>>
    ELSE IF node.args[1].k # "string" THEN <<>>
    ELSE <<Require(node.args[1].text)>>

\* lines 3292-3303: the references below a node, in the order of the visit
RECURSIVE visit(_, _)
RECURSIVE forEachChild(_, _, _)
visit(node, isCJS) ==
    IF node.k = "import" THEN <<node>>
    ELSE IF node.k = "export" THEN <<node>>
    ELSE IF node.k = "exportlocal" THEN <<>>
    ELSE IF node.k = "require" THEN (IF isCJS THEN <<node>> ELSE <<>>)
    ELSE IF node.k = "call"
    THEN (IF isCJS THEN visitCallExpression(node) ELSE <<>>)
         \o forEachChild(node.args, isCJS, 1)
    ELSE <<>>

forEachChild(nodes, isCJS, i) ==
    IF i > Len(nodes) THEN <<>>
    ELSE visit(nodes[i], isCJS) \o forEachChild(nodes, isCJS, i + 1)

ScannedNames(mod) == forEachChild(mod.file.refs, mod.type = "cjs", 1)

\* maybeAddModuleToPending: the reference a scanned name stands for
RefOf(mod, name) ==
    IF StartsWithDot(name) THEN join(dirname(mod.path), name) ELSE name

RECURSIVE AddNames(_, _, _, _)
AddNames(st, mod, items, i) ==
    IF i > Len(items) THEN st
    ELSE LET name == items[i].name
             ref == RefOf(mod, name)
         IN AddNames(
                IF EndsWithExt(name, "json")
                THEN [st EXCEPT !.jsonFilePaths = SetAdd(@, ref)]
                ELSE IF ref \notin st.processedModules
                THEN [st EXCEPT !.pendingModules = Append(@, [name |-> ref, referrer |-> mod.path])]
                ELSE st,
                mod, items, i + 1)

processJSModule(st, mod) == AddNames(st, mod, ScannedNames(mod), 1)


(***************************************************************************)
(* createBundler: the bundler's tables.  output and the alias sets keep    *)
(* their insertion order (outputKeys, a sequence), as Map and Set do.      *)
(***************************************************************************)
\* makeOutputOptions: options.sourceMaps, "included" by default
sourceMaps == options.sourceMaps

(***************************************************************************)
(* makeCompilerOptions, lines 2852-2899.  A compiler-options record gives  *)
(* every option its value, Unset when it is undefined.                     *)
(***************************************************************************)
Unset == "undefined"

OptionNames ==
    {"target", "lib", "module", "moduleResolution", "allowSyntheticDefaultImports",
     "resolveJsonModule", "allowJs", "strict", "rootDir", "outDir", "sourceRoot",
     "sourceMap", "inlineSourceMap", "noEmit", "declaration"}

NoCompilerOptions == [name \in OptionNames |-> Unset]

makeDefaultCompilerOptions ==
    [NoCompilerOptions EXCEPT
        !["target"] = "ES2020",
        !["lib"] = "lib.es2020.d.ts",
        !["module"] = "ES2020",
        !["moduleResolution"] = "Node16",
        !["allowSyntheticDefaultImports"] = "true",
        !["resolveJsonModule"] = "true",
        !["allowJs"] = "true",
        !["strict"] = "true"]

softOptionNames == {"target", "lib", "strict"}

fixedTsOptions ==
    [name \in OptionNames |->
        IF name \in softOptionNames THEN Unset ELSE makeDefaultCompilerOptions[name]]

TsConfigPath == join(projectRoot, << <<"tsconfig", "json">> >>)

\* a tsconfig.json with these compilerOptions
TsConfigFile(compilerOptions) == [kind |-> "tsconfig", compilerOptions |-> compilerOptions]

\* ts.getParsedCommandLineOfConfigFile(path, optionsToExtend, host)?.options:
\* undefined when the file cannot be read; the options to extend win over
\* the ones of the file
getParsedCommandLineOfConfigFile(fs, path, optionsToExtend) ==
    IF ~fileExists(fs, path) THEN [ok |-> FALSE, options |-> NoCompilerOptions]
    ELSE [ok |-> TRUE,
          options |-> [name \in OptionNames |->
                          IF optionsToExtend[name] # Unset THEN optionsToExtend[name]
                          ELSE fs[path].compilerOptions[name]]]

\* lines 2865-2875
UserOrDefault(userOpts) ==
    [name \in OptionNames |->
        IF name \in softOptionNames /\ userOpts[name] = Unset
        THEN makeDefaultCompilerOptions[name]
        ELSE IF name = "noEmit" THEN Unset
        ELSE userOpts[name]]

\* lines 2877-2883
WithOutputOptions(opts, sourceMapsOption) ==
    IF sourceMapsOption = "included"
    THEN [opts EXCEPT !["rootDir"] = "/p", !["outDir"] = "/", !["sourceRoot"] = "/p",
                      !["sourceMap"] = "true", !["inlineSourceMap"] = "false"]
    ELSE [opts EXCEPT !["rootDir"] = "/p", !["outDir"] = "/"]

makeCompilerOptions(fs, sourceMapsOption) ==
    WithOutputOptions(
        IF getParsedCommandLineOfConfigFile(fs, TsConfigPath, fixedTsOptions).ok
        THEN UserOrDefault(getParsedCommandLineOfConfigFile(fs, TsConfigPath, fixedTsOptions).options)
        ELSE makeDefaultCompilerOptions,
        sourceMapsOption)

\* the front-end writes a .map next to every .js it emits
EmitsSourceMaps == makeCompilerOptions(files, sourceMaps)["sourceMap"] = "true"
\* the front-end ends every .js it emits with a data URL of its map
EmitsInlineSourceMaps ==
    ~EmitsSourceMaps /\ makeCompilerOptions(files, sourceMaps)["inlineSourceMap"] = "true"

EmptyMap == [x \in {} |-> Undefined]

createBundler ==
    [ output |-> EmptyMap, outputKeys |-> <<>>,
      pendingModules |-> <<>>,
      processedModules |-> {},
      jsonFilePaths |-> <<>>,
      modules |-> EmptyMap,
      externalSources |-> EmptyMap,
      \* the locals and the outcome of the latest bundle() call, and what it
      \* went through: the files it announced and scanned, the references it
      \* took from the queue, and what resolving each of them gave
      missing |-> {}, added |-> <<>>, scanned |-> <<>>, dequeued |-> {}, resolved |-> {},
      phase |-> "idle", error |-> "", report |-> <<>>, bundle |-> <<>> ]

\* output.set(name, data)
OutputSet(st, name, data) ==
    [st EXCEPT !.output = (name :> data) @@ @,
               !.outputKeys = IF name \in DOMAIN st.output THEN @ ELSE Append(@, name)]

\* output.delete(name)
OutputDelete(st, name) ==
    [st EXCEPT !.output = [n \in (DOMAIN @) \ {name} |-> @[n]],
               !.outputKeys = SelectSeq(@, LAMBDA n : n # name)]

Throw(st, error, report) ==
    [st EXCEPT !.phase = "failed", !.error = error, !.report = report]

(***************************************************************************)
(* The front-end's emit, through the redirected system.writeFile: the      *)
(* compiled .js of every source file under outDir "/", and its .map.       *)
(***************************************************************************)
\* the after-transformer useStrictRemovalTransformer, lines 3353-3370, has
\* taken the "use strict" statements out of the emitted text
EmittedJs(file) == [file EXCEPT !.kind = "js",
                                !.useStrict = FALSE,
                                !.sm = IF EmitsSourceMaps THEN "sibling"
                                       ELSE IF EmitsInlineSourceMaps THEN "inline" ELSE "none"]
EmittedMap(file) == [file EXCEPT !.kind = "map", !.refs = <<>>]

OutPath(fileName) == changeFileExtension(fileName, "js")

RECURSIVE Emit(_, _, _)
Emit(st, program, i) ==
    IF i > Len(program) THEN st
    ELSE LET name == substringAfter(OutPath(program[i].fileName), projectRoot)
             st1 == OutputSet(st, name, EmittedJs(program[i].file))
             st2 == IF EmitsSourceMaps
                    THEN OutputSet(st1, AppendExt(name, "map"), EmittedMap(program[i].file))
                    ELSE st1
         IN Emit(st2, program, i + 1)

(***************************************************************************)
(* bundle(program), lines 2963-2979: the project sources become esm module *)
(* records and are scanned.                                                *)
(***************************************************************************)
markAllProgramSourcesAsProcessed(st, program) ==
    [st EXCEPT !.processedModules = @ \cup {OutPath(program[i].fileName) : i \in 1..Len(program)}]

RECURSIVE AddProgramModules(_, _, _)
AddProgramModules(st, program, i) ==
    IF i > Len(program) \/ st.phase = "failed" THEN st
    ELSE LET path == OutPath(program[i].fileName)
             mod == [type |-> "esm", path |-> path, file |-> program[i].file, aliases |-> <<>>]
             an == assetNameFromFilePath(path)
         IN IF ~an.ok THEN Throw(st, "unexpected file path", <<path>>)
            ELSE AddProgramModules(
                     processJSModule([st EXCEPT !.modules = (an.name :> mod) @@ @,
                                                !.scanned = Append(@, path)], mod),
                     program, i + 1)

BundleBegin(b, program) ==
    AddProgramModules(
        markAllProgramSourcesAsProcessed(
            [b EXCEPT !.missing = {}, !.added = <<>>, !.scanned = <<>>, !.dequeued = {},
                      !.resolved = {},
                      !.phase = "drain",
                      !.error = "", !.report = <<>>, !.bundle = <<>>],
            program),
        program, 1)

(***************************************************************************)
(* getExternalSourceFile(path): the cached parse, or a fresh one, which is *)
(* announced with externalSourceFileAdded.                                 *)
(***************************************************************************)
getExternalSourceFile(st, path, fs) ==
    IF path \in DOMAIN st.externalSources THEN st
    ELSE IF readFile(fs, path) = Undefined THEN Throw(st, "unable to open", <<path>>)
    ELSE [st EXCEPT !.externalSources = (path :> readFile(fs, path)) @@ @,
                    !.added = Append(@, path)]

\* refName.substring(projectRoot.length) of an absolute reference; outside
\* the project root the cut falls inside another prefix
AliasOfAbsolute(refName) ==
    IF startsWith(refName, projectRoot) THEN substringAfter(refName, projectRoot)
    ELSE << <<"undefined">> >> \o refName

(***************************************************************************)
(* One turn of the drain loop, lines 2983-3023.                            *)
(***************************************************************************)
\* lines 3001-3011: a file met for the first time becomes a module record
NewModule(g, modPath, assetName, sourceFile, fs) ==
    processJSModule(
        [OutputSet(g, assetName, sourceFile) EXCEPT
            !.modules = (assetName :> [type |-> detectModuleType(modPath, fs),
                                       path |-> modPath,
                                       file |-> sourceFile,
                                       aliases |-> <<>>]) @@ @,
            !.processedModules = @ \cup {modPath},
            !.scanned = Append(@, modPath)],
        [type |-> detectModuleType(modPath, fs), path |-> modPath,
         file |-> sourceFile, aliases |-> <<>>])

LoadedModule(g, modPath, assetName, fs) ==
    IF g.phase = "failed" THEN g
    ELSE NewModule(g, modPath, assetName, g.externalSources[modPath], fs)

\* a loop that does not look whether the file has a module record
EnsureModuleAgain(st, modPath, assetName, fs) ==
    LoadedModule(getExternalSourceFile(st, modPath, fs), modPath, assetName, fs)

\* lines 2998-3012
EnsureModule(st, modPath, assetName, fs) ==
    IF assetName \in DOMAIN st.modules THEN st
    ELSE LoadedModule(getExternalSourceFile(st, modPath, fs), modPath, assetName, fs)

\* an alias that takes the place of the earlier ones of its module
AddAliasReplacing(st, assetName, refName, needsAlias) ==
    IF st.phase = "failed" \/ ~needsAlias THEN st
    ELSE [st EXCEPT !.modules[assetName].aliases =
              <<IF isAbsolute(refName) THEN AliasOfAbsolute(refName) ELSE refName>>]

\* lines 3014-3022
AddAlias(st, assetName, refName, needsAlias) ==
    IF st.phase = "failed" \/ ~needsAlias THEN st
    ELSE [st EXCEPT !.modules[assetName].aliases =
              SetAdd(@, IF isAbsolute(refName) THEN AliasOfAbsolute(refName) ELSE refName)]

Resolved(st, refName, modPath, needsAlias, an, fs) ==
    IF ~an.ok THEN Throw(st, "unexpected file path", <<modPath>>)
    ELSE AddAlias(EnsureModule(st, modPath, an.name, fs), an.name, refName, needsAlias)

\* a drain loop that gives up at the first reference that does not resolve
UnresolvedAbort(st, refName) ==
    Throw([st EXCEPT !.missing = @ \cup {refName}], "unable to resolve", <<refName>>)

\* lines 2987-2993: a reference that does not resolve is remembered, and the
\* loop goes on
Unresolved(st, refName) == [st EXCEPT !.missing = @ \cup {refName}]

Dequeued(st, refName, resolveRes, fs) ==
    IF ~resolveRes.ok THEN Unresolved(st, refName)
    ELSE Resolved(st, refName, resolveRes.path, resolveRes.needsAlias,
                  assetNameFromFilePath(resolveRes.path), fs)

\* what a resolution reads of a file system: the files there are, and the
\* type, module and main fields of the package manifests
Listing(fs) ==
    [p \in DOMAIN fs |->
        IF fs[p].kind = "pkg"
        THEN [ptype |-> fs[p].ptype, module |-> fs[p].module, main |-> fs[p].main]
        ELSE [ptype |-> "", module |-> <<>>, main |-> <<>>]]

DrainStep(st, assets, fs) ==
    Dequeued([st EXCEPT !.pendingModules = Tail(@),
                        !.processedModules = @ \cup {Head(st.pendingModules).name},
                        !.dequeued = @ \cup {Head(st.pendingModules)},
                        !.resolved = @ \cup
                            {[ref |-> Head(st.pendingModules), fs |-> Listing(fs),
                              res |-> resolveModuleReference(Head(st.pendingModules), assets, fs)]}],
             Head(st.pendingModules).name,
             resolveModuleReference(Head(st.pendingModules), assets, fs),
             fs)

(***************************************************************************)
(* After the drain, lines 3024-3038: the missing and CommonJS checks, then *)
(* the JSON files are loaded.                                              *)
(***************************************************************************)
legacyModules(st) ==
    SortStrings({st.modules[n].path : n \in {m \in DOMAIN st.modules : st.modules[m].type = "cjs"}})

RECURSIVE LoadJson(_, _, _)
LoadJson(st, i, fs) ==
    IF i > Len(st.jsonFilePaths) \/ st.phase = "failed" THEN st
    ELSE LET path == st.jsonFilePaths[i]
             an == assetNameFromFilePath(path)
         IN IF ~an.ok THEN Throw(st, "unexpected file path", <<path>>)
            ELSE LoadJson(IF an.name \in DOMAIN st.output THEN st
                          ELSE OutputSet(st, an.name, readFile(fs, path)),
                          i + 1, fs)

(***************************************************************************)
(* jsonToModule(json): [ok, text]; JSON.parse throws on anything that is   *)
(* not JSON text, the synthesized module text included.                    *)
(***************************************************************************)
\* check(word, "es2015", true) of @frida/reserved-words: the word is a
\* reserved word of the dialect; of the keys of the model, "default" is
ReservedWords == {"default", "class", "let", "static", "yield"}
checkIdentifier(word) == word \in ReservedWords

\* "d", then "d" + serial for serial = 1, 2, ...
CandidateNames == <<"d", "d1", "d2", "d3", "d4", "d5">>

\* a loop that takes the first candidate as it is
FirstCandidate(keys, i) == CandidateNames[i]

\* lines 3379-3386: the loop over the candidates
RECURSIVE FreeCandidate(_, _)
FreeCandidate(keys, i) ==
    IF CandidateNames[i] \notin Range(keys) THEN CandidateNames[i]
    ELSE FreeCandidate(keys, i + 1)

\* typeof data === "object" && data !== null
IsObject(json) == json.shape \in {"object", "array"}

jsonToModule(data) ==
    IF data.kind # "json" THEN [ok |-> FALSE, error |-> "json syntax error", text |-> data]
    ELSE IF IsObject(data.json)
    THEN IF "hasOwnProperty" \in Range(data.json.keys)
         \* obj.hasOwnProperty is the member's value, and not a function
         THEN [ok |-> FALSE, error |-> "type error", text |-> data]
         ELSE [ok |-> TRUE, error |-> "",
               text |-> [data EXCEPT
                           !.kind = "jsonmodule",
                           !.json.binding = FreeCandidate(data.json.keys, 1),
                           !.json.exports = SelectSeq(data.json.keys,
                                                      LAMBDA member : ~checkIdentifier(member))]]
    ELSE [ok |-> TRUE, error |-> "", text |-> [data EXCEPT !.kind = "jsonmodule"]]

\* process.cwd(), which the CLI takes as the project root
cwd == projectRoot

(***************************************************************************)
(* The per-asset rewrite, lines 3040-3128, over output in insertion order  *)
(* (entries set during the loop are visited too); compression is "none".   *)
(***************************************************************************)
\* The last line of a .js file, the field sm: "none" when it is not a
\* sourceMappingURL comment, "inline" for a base64 data URL, "sibling" for
\* the URL <basename>.map, "elsewhere" for the URL ElsewhereUrl.
ElsewhereUrl == << <<"bundle", "js", "map">> >>

\* lines 3059-3061
SourceMapPath(name, sm) ==
    IF sm = "elsewhere" THEN join(dirname(name), ElsewhereUrl)
    ELSE AppendExt(name, "map")

RewriteJs(st, name, fs) ==
    LET data == st.output[name]
        code == [data EXCEPT !.sm = "none"]
        sourceMapPath == SourceMapPath(name, data.sm)
        content == IF data.sm = "inline" THEN [data EXCEPT !.kind = "map", !.sm = "none", !.refs = <<>>]
                   ELSE readFile(fs, join(cwd, sourceMapPath))
        st1 == IF /\ data.sm # "none"
                  /\ sourceMaps = "included"
                  /\ sourceMapPath \notin DOMAIN st.output
                  /\ content # Undefined
               THEN OutputSet(st, sourceMapPath, content)
               ELSE st
    IN OutputSet(st1, name, code)

RECURSIVE RewriteLoop(_, _, _)
RewriteLoop(st, i, fs) ==
    IF i > Len(st.outputKeys) \/ st.phase = "failed" THEN st
    ELSE LET name == st.outputKeys[i] IN
         IF EndsWithExt(name, "js") THEN RewriteLoop(RewriteJs(st, name, fs), i + 1, fs)
         ELSE IF EndsWithExt(name, "json")
         THEN LET m == jsonToModule(st.output[name]) IN
              IF m.ok THEN RewriteLoop(OutputSet(st, name, m.text), i + 1, fs)
              ELSE Throw(st, m.error, <<name>>)
         ELSE RewriteLoop(st, i + 1, fs)

(***************************************************************************)
(* The emission order, lines 3130-3147, and the container, lines 3149-3172 *)
(***************************************************************************)
\* names.splice(index, 0, x), index counted from 0
Splice(names, index, x) ==
    SubSeq(names, 1, index) \o <<x>> \o SubSeq(names, index + 1, Len(names))

\* an ordering loop that leaves the entrypoint where sorting puts it
RECURSIVE OrderNamesSorted(_, _, _, _)
OrderNamesSorted(primaries, maps, entrypointNormalized, names) ==
    IF primaries = <<>> THEN names
    ELSE LET name == Head(primaries)
             mapName == AppendExt(name, "map")
         IN OrderNamesSorted(Tail(primaries), maps, entrypointNormalized,
                             IF mapName \in maps THEN names \o <<mapName, name>>
                             ELSE Append(names, name))

RECURSIVE OrderNames(_, _, _, _)
OrderNames(primaries, maps, entrypointNormalized, names) ==
    IF primaries = <<>> THEN names
    ELSE LET name == Head(primaries)
             index == IF normalize(name) = entrypointNormalized THEN 0 ELSE Len(names)
             mapName == AppendExt(name, "map")
             withMap == IF mapName \in maps THEN Splice(names, index, mapName) ELSE names
             index2 == IF mapName \in maps THEN index + 1 ELSE index
         IN OrderNames(Tail(primaries), maps, entrypointNormalized, Splice(withMap, index2, name))

EmissionOrder(output, entrypointOutput) ==
    LET orderedNames == SortStrings(DOMAIN output)
        maps == {n \in DOMAIN output : EndsWithExt(n, "map")}
    IN OrderNames(SelectSeq(orderedNames, LAMBDA n : ~EndsWithExt(n, "map")),
                  maps, normalize(entrypointOutput), <<>>)

\* Buffer.from(data).length: the length of a text follows its revision, its
\* references and its trailing source-map line
ByteLength(data) ==
    data.v + Len(data.refs) + (IF data.sm = "none" THEN 0 ELSE 1)
    + (IF data.useStrict THEN 1 ELSE 0)

Chunk(t, name, n, data) == [t |-> t, name |-> name, n |-> n, data |-> data]

RECURSIVE ManifestChunks(_, _, _)
ManifestChunks(st, names, i) ==
    IF i > Len(names) THEN <<>>
    ELSE LET name == names[i]
             aliases == IF name \in DOMAIN st.modules THEN st.modules[name].aliases ELSE <<>>
         IN <<Chunk("size", name, ByteLength(st.output[name]), Undefined)>>
            \o [k \in 1..Len(aliases) |-> Chunk("alias", aliases[k], 0, Undefined)]
            \o ManifestChunks(st, names, i + 1)

Serialize(st, names) ==
    <<Chunk("box", <<>>, 0, Undefined)>>
    \o ManifestChunks(st, names, 1)
    \o <<Chunk("cut", <<>>, 0, Undefined)>>
    \o [i \in 1..Len(names) |-> Chunk("data", <<>>, 0, st.output[names[i]])]

Bundled(st, entry) ==
    IF st.phase = "failed" THEN st
    ELSE [st EXCEPT !.phase = "done",
                    !.bundle = Serialize(st, EmissionOrder(st.output, entry.output))]

\* a finish that, as earlier revisions did, lets CommonJS modules through
BundleFinishKeepingCjs(st0, entry, fs) ==
    IF st0.phase = "failed" THEN st0
    ELSE IF st0.missing # {} THEN Throw(st0, "unable to resolve", SortStrings(st0.missing))
    ELSE Bundled(RewriteLoop(LoadJson(st0, 1, fs), 1, fs), entry)

\* a finish that looks for CommonJS modules before it looks at the missing set
BundleFinishCjsFirst(st0, entry, fs) ==
    IF st0.phase = "failed" THEN st0
    ELSE IF legacyModules(st0) # <<>> THEN Throw(st0, "detected CommonJS", legacyModules(st0))
    ELSE IF st0.missing # {} THEN Throw(st0, "unable to resolve", SortStrings(st0.missing))
    ELSE Bundled(RewriteLoop(LoadJson(st0, 1, fs), 1, fs), entry)

BundleFinish(st0, entry, fs) ==
    IF st0.phase = "failed" THEN st0
    ELSE IF st0.missing # {} THEN Throw(st0, "unable to resolve", SortStrings(st0.missing))
    ELSE IF legacyModules(st0) # <<>> THEN Throw(st0, "detected CommonJS", legacyModules(st0))
    ELSE Bundled(RewriteLoop(LoadJson(st0, 1, fs), 1, fs), entry)

\* the whole drain loop
RECURSIVE Drain(_, _, _)
Drain(st, assets, fs) ==
    IF st.phase = "failed" \/ st.pendingModules = <<>> THEN st
    ELSE Drain(DrainStep(st, assets, fs), assets, fs)

\* bundler.bundle(program)
bundle(b, prog, entry, catalog, fs) ==
    BundleFinish(Drain(BundleBegin(b, prog), catalog, fs), entry, fs)

\* an invalidate that forgets every asset
invalidateEverything(b, path) ==
    [b EXCEPT !.output = EmptyMap, !.outputKeys = <<>>,
              !.processedModules = {},
              !.externalSources = [q \in (DOMAIN @) \ {path} |-> @[q]]]

\* bundler.invalidate(path)
invalidate(b, path) ==
    LET an == assetNameFromFilePath(path) IN
    IF ~an.ok THEN b
    ELSE [OutputDelete(b, an.name) EXCEPT
             !.processedModules = {},
             !.externalSources = [q \in (DOMAIN @) \ {path} |-> @[q]]]

\* deriveEntrypoint(options)
deriveEntrypoint(input) ==
    LET out == substringAfter(input, projectRoot) IN
    [input |-> input,
     output |-> IF EndsWithExt(out, "ts") THEN changeFileExtension(out, "js") ELSE out]


(***************************************************************************)
(* The files of the model: a project /p with the entrypoint                *)
(* /p/agent/index.ts, packages under /p/node_modules, and the compiler's   *)
(* shims under /frida-compile/node_modules.                                *)
(***************************************************************************)
Abs(segs) == <<EmptySeg>> \o segs

EntryTs == Abs(<< <<"p">>, <<"agent">>, <<"index", "ts">> >>)
GreetTs == Abs(<< <<"p">>, <<"agent">>, <<"greet", "ts">> >>)
DataJson == Abs(<< <<"p">>, <<"agent">>, <<"data", "json">> >>)

ProjectPkg(name, file) == Abs(<< <<"p">>, <<"node_modules">>, <<name>>, file >>)
ShimPkg(name, file) == Abs(<< <<"frida-compile">>, <<"node_modules">>, <<name>>, file >>)
BufferShim(file) ==
    Abs(<< <<"frida-compile">>, <<"node_modules">>, <<"@frida">>, <<"buffer">>, file >>)

Bare(name) == << <<name>> >>
Relative(stem, ext) == << DotSeg, <<stem, ext>> >>
\* a relative reference written without an extension: "./greet"
ExtensionLess(stem) == << DotSeg, <<stem>> >>

\* the references an entrypoint may hold
EntryItems ==
    { Import(Relative("greet", "js")), Import(Bare("foo")), Import(Bare("dep")),
      Import(Bare("buffer")), Import(Bare("node:buffer")), Import(Bare("legacy")),
      ExportFrom(Bare("nope")), Import(Relative("data", "json")),
      Import(ExtensionLess("greet")), Require(Relative("data", "json")) }

\* the longest list of references of an entrypoint
MaxRefs == 2

RECURSIVE SeqsUpTo(_, _)
SeqsUpTo(S, n) ==
    IF n = 0 THEN {<<>>}
    ELSE LET shorter == SeqsUpTo(S, n - 1) IN
         shorter \cup {Append(q, x) : q \in {r \in shorter : Len(r) = n - 1}, x \in S}

NoDuplicates(q) == \A i, j \in 1..Len(q) : i # j => q[i] # q[j]

EntryRefs == {q \in SeqsUpTo(EntryItems, MaxRefs) : NoDuplicates(q)}

\* what the packages may hold
\* a source map file on disk
MapFile(v) == [kind |-> "map", v |-> v, refs |-> <<>>, sm |-> "none", useStrict |-> FALSE, json |-> NoJson,
               ptype |-> "", module |-> <<>>, main |-> <<>>]

\* the package foo ships its index.js with a source map comment of kind sm
WithSourceMap(fs, sm) ==
    ( ProjectPkg("foo", <<"index", "js">>) :>
          [fs[ProjectPkg("foo", <<"index", "js">>)] EXCEPT !.sm = sm]
   @@ (IF sm = "elsewhere"
       THEN ProjectPkg("foo", ElsewhereUrl[1]) :> MapFile(1)
       ELSE << >>)
   @@ fs )

FooMaps == {"inline", "elsewhere"}

\* the package foo ships its index.js with a leading "use strict"; statement
WithUseStrict(fs) ==
    [fs EXCEPT ![ProjectPkg("foo", <<"index", "js">>)].useStrict = TRUE]

\* the compiler's own node_modules holds a package dep as well, another
\* revision of the one the project has installed
WithCompilerDep(fs, twin) ==
    IF twin
    THEN ( ShimPkg("dep", <<"package", "json">>) :> PkgFile("module", <<>>, IndexJs)
        @@ ShimPkg("dep", <<"index", "js">>) :> JsFile(2, <<>>)
        @@ fs )
    ELSE fs

FooRefs == { <<>>, <<Import(Bare("dep"))>>, <<Import(Bare("gone"))>>,
             <<Import(Bare("node:buffer"))>> }
BufferRefs == { <<>>, <<Import(Bare("dep"))>> }
LegacyRefs == { <<Require(Relative("dep", "js"))>>, <<Require(Bare("gone")), Import(Bare("dep"))>> }

FixedFiles ==
    ( DataJson :> JsonFile(1)
   @@ ProjectPkg("foo", <<"package", "json">>) :> PkgFile("", IndexJs, <<>>)
   @@ ProjectPkg("dep", <<"package", "json">>) :> PkgFile("module", <<>>, IndexJs)
   @@ ProjectPkg("dep", <<"index", "js">>) :> JsFile(1, <<>>)
   @@ ProjectPkg("legacy", <<"package", "json">>) :> PkgFile("", <<>>, IndexJs)
   @@ ProjectPkg("legacy", <<"dep", "js">>) :> JsFile(1, <<>>)
   @@ BufferShim(<<"package", "json">>) :> PkgFile("module", <<>>, IndexJs) )

World(fooRefs, bufferRefs, legacyRefs) ==
    ( ProjectPkg("foo", <<"index", "js">>) :> JsFile(1, fooRefs)
   @@ BufferShim(<<"index", "js">>) :> JsFile(1, bufferRefs)
   @@ ProjectPkg("legacy", <<"index", "js">>) :> JsFile(1, legacyRefs)
   @@ FixedFiles )

\* the package "nope", once it is installed
NopeFiles ==
    ( ProjectPkg("nope", <<"package", "json">>) :> PkgFile("module", <<>>, IndexJs)
   @@ ProjectPkg("nope", <<"index", "js">>) :> JsFile(1, <<>>) )

(***************************************************************************)
(* The front-end's program for an entrypoint: the project sources it       *)
(* reaches, imported files first (the order of program.getSourceFiles()).  *)
(***************************************************************************)
SourceFile(fileName, file) == [fileName |-> fileName, file |-> file]

ProgramOf(entryRefs, greetRev) ==
    (IF \E i \in 1..Len(entryRefs) :
           entryRefs[i].name \in {Relative("greet", "js"), ExtensionLess("greet")}
     THEN <<SourceFile(GreetTs, [JsFile(greetRev, <<>>) EXCEPT !.useStrict = TRUE])>> ELSE <<>>)
    \o <<SourceFile(EntryTs, JsFile(1, entryRefs))>>


(***************************************************************************)
(* State.                                                                  *)
(***************************************************************************)

VARIABLES
    assets,          \* options.assets
    frontEnd,        \* what the front-end reports for the program: its diagnostics
    compilerOpts,    \* the compiler options of the latest build() call
    delivered,       \* the diagnostics the latest build() call gave to onDiagnostic
    call,            \* the latest call of the resolver or of detectModuleType, and its result
    program,         \* the front-end's current program: its source files
    bundler,         \* the bundler's tables and the outcome of its latest pass
    \* build(): one-shot mode
    pc,              \* "idle", "drain" (inside the drain loop), "returned", "threw"; "watch"
    runs,            \* build() calls made so far
    previousRun,     \* the outcome of the build() call before the current one
    \* watch(): watch mode
    state,           \* "dirty" | "clean"
    timer,           \* the debounce timer: its due time, or NoTimer
    previousBundle,  \* the bundle of the last bundleUpdated, or Null
    now,             \* the time in ms
    nextTicks,       \* the queued process.nextTick callbacks
    watchers,        \* the paths with a compilerHost.watchFile registration
    inFlight,        \* rebundle() calls that have started and not finished
    emitted,         \* how often each watcher event was emitted
    lastUpdated,     \* the payload of the latest bundleUpdated
    changes,         \* history: the watched-file change events
    starts,          \* history: when the debounce timer called rebundle()
    cancelled        \* the caller of watch() has given up on it

buildVars == <<pc, runs, previousRun>>
watchVars == <<state, timer, previousBundle, now, nextTicks, watchers, inFlight,
               emitted, lastUpdated, changes, starts, cancelled>>
compileVars == <<options, frontEnd, compilerOpts, delivered>>
vars == <<files, assets, compileVars, call, program, bundler, buildVars, watchVars>>

NoCall == [fn |-> "none"]

\* normalizeOptions and makeOutputOptions: the defaults
DefaultOptions == [sourceMaps |-> "included", onDiagnostic |-> TRUE]
\* a program without diagnostics
NoDiagnostics == [preEmit |-> <<>>, emit |-> <<>>, emitSkipped |-> FALSE]

CompileIdle ==
    /\ options = DefaultOptions
    /\ frontEnd = NoDiagnostics
    /\ compilerOpts = NoCompilerOptions
    /\ delivered = <<>>
    /\ call = NoCall

NoTimer == -1
Null == <<>>
NoRun == [error |-> "none", report |-> <<>>, legacy |-> <<>>, missing |-> {}, resolved |-> {},
          phase |-> "idle", bundle |-> <<>>]

entrypoint == deriveEntrypoint(EntryTs)

WatchIdle ==
    /\ state = "dirty"
    /\ timer = NoTimer
    /\ previousBundle = Null
    /\ now = 0
    /\ nextTicks = <<>>
    /\ watchers = {}
    /\ inFlight = 0
    /\ emitted = [compilationStarting |-> 0, bundleUpdated |-> 0, compilationFinished |-> 0]
    /\ lastUpdated = Null
    /\ changes = <<>>
    /\ starts = <<>>
    /\ cancelled = FALSE

(***************************************************************************)
(* build(options), one-shot mode: a fresh bundler, the emit, then          *)
(* bundler.bundle(program), whose drain loop is followed turn by turn.     *)
(***************************************************************************)
\* build() calls per behaviour
MaxRuns == 2

\* the file systems a build starts from: every combination of what the
\* packages refer to, then foo shipped with a source map, then dep installed
\* under the compiler as well
PlainLegacy == <<Require(Relative("dep", "js"))>>

Worlds ==
    {World(f, b, l) : f \in FooRefs, b \in BufferRefs, l \in LegacyRefs}
    \cup {WithSourceMap(World(<<>>, <<>>, PlainLegacy), sm) : sm \in FooMaps}
    \cup {WithCompilerDep(World(f, b, PlainLegacy), TRUE) : f \in FooRefs, b \in BufferRefs}
    \cup {WithUseStrict(World(<<>>, <<>>, PlainLegacy))}

\* the directory of the entrypoint is a package of its own, with the
\* compiled index.js of an earlier tsc run next to index.ts
WithAgentPackage(fs) ==
    ( Abs(<< <<"p">>, <<"agent">>, <<"package", "json">> >>) :> PkgFile("module", <<>>, IndexJs)
   @@ Abs(<< <<"p">>, <<"agent">>, <<"index", "js">> >>) :> JsFile(1, <<>>)
   @@ fs )

\* "../agent", the directory of the entrypoint
AgentDir == << DotDotSeg, <<"agent">> >>

\* the projects a build starts from: a file system and the references of
\* the entrypoint
Projects ==
    (Worlds \X EntryRefs)
    \cup ({WithAgentPackage(World(<<>>, <<>>, PlainLegacy))}
          \X {<<Import(AgentDir)>>, <<Import(Bare("foo")), Import(AgentDir)>>})

BuildInit ==
    /\ \E project \in Projects :
           /\ files = project[1]
           /\ program = ProgramOf(project[2], 1)
    /\ assets = queryDefaultAssets(files)
    /\ bundler = createBundler
    /\ pc = "idle"
    /\ runs = 0
    /\ previousRun = NoRun
    /\ WatchIdle
    /\ CompileIdle

Outcome(st) == [error |-> st.error, report |-> st.report,
                legacy |-> legacyModules(st), missing |-> st.missing,
                resolved |-> st.resolved, phase |-> st.phase, bundle |-> st.bundle]

\* a check that lets nothing but messages through
HasErrorOrWarning(diagnostics) ==
    \E i \in 1..Len(diagnostics) : diagnostics[i] \in {"error", "warning"}

\* category === ts.DiagnosticCategory.Error for some diagnostic
HasError(diagnostics) == \E i \in 1..Len(diagnostics) : diagnostics[i] = "error"

\* lines 2569-2571 and 2581-2583
PreEmitFailed(fe) == HasError(fe.preEmit)
EmitFailed(fe) == fe.emitSkipped \/ HasError(fe.emit)

Diagnostic(phase, category) == [phase |-> phase, category |-> category]

\* lines 2564-2568 and 2576-2580: the calls of onDiagnostic, in order
DeliveredBy(fe, onDiagnostic) ==
    IF ~onDiagnostic THEN <<>>
    ELSE [i \in 1..Len(fe.preEmit) |-> Diagnostic("preEmit", fe.preEmit[i])]
         \o (IF PreEmitFailed(fe) THEN <<>>
             ELSE [i \in 1..Len(fe.emit) |-> Diagnostic("emit", fe.emit[i])])

\* build(): lines 2549-2587 and 2963-2979
Build ==
    /\ pc \in {"idle", "returned", "threw"}
    /\ runs < MaxRuns
    /\ runs' = runs + 1
    /\ previousRun' = IF runs = 0 THEN NoRun ELSE Outcome(bundler)
    /\ compilerOpts' = makeCompilerOptions(files, sourceMaps)
    /\ delivered' = DeliveredBy(frontEnd, options.onDiagnostic)
    /\ bundler' = IF PreEmitFailed(frontEnd)
                  THEN Throw(createBundler, "compilation failed", <<>>)
                  ELSE IF EmitFailed(frontEnd)
                  THEN Throw(Emit(createBundler, program, 1), "compilation failed", <<>>)
                  ELSE BundleBegin(Emit(createBundler, program, 1), program)
    /\ pc' = IF bundler'.phase = "failed" THEN "threw" ELSE "drain"
    /\ UNCHANGED <<files, assets, call, options, frontEnd, program, watchVars>>

\* one turn of the loop of lines 2983-3023
DrainTurn ==
    /\ pc = "drain"
    /\ bundler.pendingModules # <<>>
    /\ bundler' = DrainStep(bundler, assets, files)
    /\ pc' = IF bundler'.phase = "failed" THEN "threw" ELSE "drain"
    /\ UNCHANGED <<files, assets, call, compileVars, program, runs, previousRun, watchVars>>

\* lines 3024-3172: the queue is empty
BuildFinish ==
    /\ pc = "drain"
    /\ bundler.pendingModules = <<>>
    /\ bundler' = BundleFinish(bundler, entrypoint, files)
    /\ pc' = IF bundler'.phase = "failed" THEN "threw" ELSE "returned"
    /\ UNCHANGED <<files, assets, call, compileVars, program, runs, previousRun, watchVars>>

\* between two builds the package "nope" is installed
InstallNope ==
    /\ pc \in {"returned", "threw"}
    /\ ~fileExists(files, ProjectPkg("nope", <<"index", "js">>))
    /\ files' = NopeFiles @@ files
    /\ pc' = "idle"
    /\ UNCHANGED <<assets, call, compileVars, program, bundler, runs, previousRun, watchVars>>

BuildNext == Build \/ DrainTurn \/ BuildFinish \/ InstallNope

BuildSpec == BuildInit /\ [][BuildNext]_vars

(***************************************************************************)
(* One bundler instance that is asked for a bundle more than once, as the  *)
(* watch does: the front-end's emit into the output table, lines 2916-2918 *)
(* and 2613, and bundler.bundle(program), line 2665.                       *)
(***************************************************************************)
\* the front-end emits the program
EmitProgram ==
    /\ pc \in {"idle", "returned", "threw"}
    /\ runs < MaxRuns
    /\ bundler' = Emit(bundler, program, 1)
    /\ pc' = "emitted"
    /\ UNCHANGED <<files, assets, call, compileVars, program, runs, previousRun, watchVars>>

\* bundler.bundle(program), after an emit or right after the pass before
Pass ==
    /\ pc \in {"emitted", "returned", "threw"}
    /\ runs < MaxRuns
    /\ runs' = runs + 1
    /\ previousRun' = IF runs = 0 THEN NoRun ELSE Outcome(bundler)
    /\ bundler' = bundle(bundler, program, entrypoint, assets, files)
    /\ pc' = IF bundler'.phase = "failed" THEN "threw" ELSE "returned"
    /\ UNCHANGED <<files, assets, call, compileVars, program, watchVars>>

(***************************************************************************)
(* One-shot builds of an entrypoint that imports ./data.json, over the     *)
(* JSON values data.json may hold.                                         *)
(***************************************************************************)
JsonKeys == {"a", "b-c", "default", "d", "d1", "hasOwnProperty"}
\* the most members of a JSON object, and elements of a JSON array
MaxKeys == 3
\* Object.keys of an array
ArrayKeys == <<"0", "1", "2", "3", "4">>

JsonValues ==
    {JsonValue("object", q) : q \in {r \in SeqsUpTo(JsonKeys, MaxKeys) : NoDuplicates(r)}}
    \cup {JsonValue("array", SubSeq(ArrayKeys, 1, n)) : n \in 0..MaxKeys}
    \cup {JsonValue("null", <<>>), JsonValue("scalar", <<>>)}

WithJson(fs, value) == [fs EXCEPT ![DataJson].json = value]

JsonEntryRefs ==
    { <<Import(Relative("data", "json"))>>,
      <<Import(Bare("foo")), Import(Relative("data", "json"))>> }

JsonInit ==
    /\ \E value \in JsonValues :
           files = WithJson(World(<<>>, <<>>, PlainLegacy), value)
    /\ assets = queryDefaultAssets(files)
    /\ \E entryRefs \in JsonEntryRefs : program = ProgramOf(entryRefs, 1)
    /\ bundler = createBundler
    /\ pc = "idle"
    /\ runs = 0
    /\ previousRun = NoRun
    /\ WatchIdle
    /\ CompileIdle

JsonSpec == JsonInit /\ [][BuildNext]_vars

(***************************************************************************)
(* One-shot builds over the tsconfig.json files a project may have, and    *)
(* over the diagnostics the front-end may report.                          *)
(***************************************************************************)
\* what a tsconfig.json may set an option to
UserValues ==
    [target |-> "ES5", lib |-> "lib.dom.d.ts", strict |-> "false",
     module |-> "CommonJS", moduleResolution |-> "Classic",
     rootDir |-> "/p/src", outDir |-> "/p/dist",
     sourceMap |-> "true", inlineSourceMap |-> "true", noEmit |-> "true",
     declaration |-> "true"]

\* the most options a tsconfig.json sets
MaxOptions == 2

TsConfigs ==
    {[name \in OptionNames |-> IF name \in chosen THEN UserValues[name] ELSE Unset] :
        chosen \in {c \in SUBSET (DOMAIN UserValues) : Cardinality(c) <= MaxOptions}}

WithTsConfig(fs, compilerOptions) == (TsConfigPath :> TsConfigFile(compilerOptions)) @@ fs

\* the most diagnostics of one phase
MaxDiagnostics == 2

Categories == {"error", "warning", "suggestion", "message"}

FrontEnds ==
    [preEmit : SeqsUpTo(Categories, MaxDiagnostics),
     emit : SeqsUpTo(Categories, MaxDiagnostics),
     emitSkipped : BOOLEAN]

CompileEntryRefs == { <<Import(Bare("foo"))>>, <<Import(Relative("greet", "js"))>> }

CompileInit ==
    /\ \/ /\ files \in {World(<<>>, <<>>, PlainLegacy)}
                     \cup {WithTsConfig(World(<<>>, <<>>, PlainLegacy), c) : c \in TsConfigs}
          /\ options \in [sourceMaps : {"included", "omitted"}, onDiagnostic : {TRUE}]
          /\ frontEnd = NoDiagnostics
       \/ /\ files = World(<<>>, <<>>, PlainLegacy)
          /\ options \in [sourceMaps : {"included"}, onDiagnostic : BOOLEAN]
          /\ frontEnd \in FrontEnds
    /\ compilerOpts = NoCompilerOptions
    /\ delivered = <<>>
    /\ call = NoCall
    /\ assets = queryDefaultAssets(files)
    /\ \E entryRefs \in CompileEntryRefs : program = ProgramOf(entryRefs, 1)
    /\ bundler = createBundler
    /\ pc = "idle"
    /\ runs = 0
    /\ previousRun = NoRun
    /\ WatchIdle

CompileSpec == CompileInit /\ [][BuildNext]_vars

(***************************************************************************)
(* The resolver and detectModuleType on their own: a project with packages *)
(* of every layout, referenced by every kind of name from referrers in the *)
(* project, in its node_modules and in the compiler's.                     *)
(***************************************************************************)
LibUtilJs == << <<"lib">>, <<"util", "js">> >>

ShimFile(file) == Abs(<< <<"frida-compile">>, <<"node_modules">>, file >>)

\* the manifest of the project itself
ProjectManifest == Abs(<< <<"p">>, <<"package", "json">> >>)

ResolveFiles ==
    ( ProjectManifest :> PkgFile("module", <<>>, <<>>)
   @@ Abs(<< <<"p">>, <<"agent">>, <<"index", "js">> >>) :> JsFile(1, <<>>)
   @@ Abs(<< <<"p">>, <<"agent">>, <<"greet", "js">> >>) :> JsFile(1, <<>>)
   \* a shimmed name that the project has installed as well
   @@ ProjectPkg("buffer", <<"package", "json">>) :> PkgFile("", <<>>, IndexJs)
   @@ ProjectPkg("buffer", <<"index", "js">>) :> JsFile(1, <<>>)
   @@ Abs(<< <<"p">>, <<"node_modules">>, <<"buffer">>, <<"lib">>, <<"util", "js">> >>) :> JsFile(1, <<>>)
   @@ BufferShim(<<"package", "json">>) :> PkgFile("module", LibUtilJs, IndexJs)
   @@ BufferShim(<<"index", "js">>) :> JsFile(2, <<>>)
   @@ Abs(<< <<"frida-compile">>, <<"node_modules">>, <<"@frida">>, <<"buffer">>, <<"lib">>, <<"util", "js">> >>) :> JsFile(2, <<>>)
   \* a shim that is one file
   @@ ShimFile(<<"util", "js">>) :> JsFile(2, <<>>)
   @@ ProjectPkg("util", <<"index", "js">>) :> JsFile(1, <<>>)
   \* installed twice: in the project and next to the shims
   @@ ProjectPkg("dep", <<"package", "json">>) :> PkgFile("module", <<>>, IndexJs)
   @@ ProjectPkg("dep", <<"index", "js">>) :> JsFile(1, <<>>)
   @@ ShimPkg("dep", <<"package", "json">>) :> PkgFile("module", <<>>, IndexJs)
   @@ ShimPkg("dep", <<"index", "js">>) :> JsFile(2, <<>>)
   @@ ProjectPkg("foo", <<"package", "json">>) :> PkgFile("", IndexJs, <<>>)
   @@ ProjectPkg("foo", <<"index", "js">>) :> JsFile(1, <<>>)
   \* "main": "lib", a directory
   @@ ProjectPkg("legacy", <<"package", "json">>) :> PkgFile("", <<>>, << <<"lib">> >>)
   @@ Abs(<< <<"p">>, <<"node_modules">>, <<"legacy">>, <<"lib">>, <<"index", "js">> >>) :> JsFile(1, <<>>)
   \* neither "module" nor "main"
   @@ ProjectPkg("nope", <<"package", "json">>) :> PkgFile("", <<>>, <<>>)
   @@ ProjectPkg("nope", <<"index", "js">>) :> JsFile(1, <<>>)
   \* no package.json
   @@ ProjectPkg("gone", <<"index", "js">>) :> JsFile(1, <<>>)
   \* "main": "lib/util", written without its extension
   @@ ProjectPkg("greet", <<"package", "json">>) :> PkgFile("", <<>>, << <<"lib">>, <<"util">> >>)
   @@ Abs(<< <<"p">>, <<"node_modules">>, <<"greet">>, <<"lib">>, <<"util", "js">> >>) :> JsFile(1, <<>>)
   \* "main" names a file that is not there
   @@ ProjectPkg("data", <<"package", "json">>) :> PkgFile("", <<>>, IndexJs)
   \* the compiler linked into the project, and a package whose name goes on
   \* where the compiler's ends
   @@ ProjectPkg("frida-compile", <<"index", "js">>) :> JsFile(1, <<>>)
   @@ ProjectPkg("frida-compiler", <<"index", "js">>) :> JsFile(1, <<>>) )

Without(fs, paths) == [path \in (DOMAIN fs) \ paths |-> fs[path]]

\* the shims installed in the project's node_modules, not in the compiler's
ShimsInProject(fs) ==
    ( Abs(<< <<"p">>, <<"node_modules">>, <<"@frida">>, <<"buffer">>, <<"index", "js">> >>) :> JsFile(2, <<>>)
   @@ Without(fs, {f \in DOMAIN fs : HasLeadingSegments(f, dirname(BufferShim(<<"index", "js">>)))}) )

ResolveWorlds ==
    { ResolveFiles,
      [ResolveFiles EXCEPT ![ProjectManifest] = PkgFile("", <<>>, <<>>)],
      Without(ResolveFiles, {ProjectManifest}),
      ShimsInProject(ResolveFiles) }

\* options.assets of a caller who shims two more packages by one file
CustomAssets(fs) ==
    LET default == queryDefaultAssets(fs) IN
    [default EXCEPT !.shims = ( << <<"util">> >> :> ShimFile(<<"util", "js">>)
                             @@ << <<"@frida">>, <<"util">> >> :> ShimFile(<<"util", "js">>)
                             @@ @ )]

Catalogs(fs) == {queryDefaultAssets(fs), CustomAssets(fs)}

Sub(name, subPath) == << <<name>> >> \o subPath

\* ref.name as processJSModule queues it: a bare name, or an absolute path
ReferenceNames ==
    { Bare("buffer"), Sub("buffer", LibUtilJs), Bare("node:buffer"),
      Bare("util"), Sub("util", << <<"lib">> >>),
      << <<"@frida">>, <<"util">> >>, << <<"@frida">>, <<"util">>, <<"lib">> >>,
      << <<"@frida">>, <<"buffer">> >>, << <<"@frida">> >>,
      Bare("dep"), Sub("dep", IndexJs), Sub("dep", << <<"index">> >>),
      Bare("foo"), Bare("legacy"), Sub("legacy", << <<"lib">> >>), Bare("nope"),
      Bare("gone"), Bare("greet"), Bare("data"), Bare("undefined"),
      Abs(<< <<"p">>, <<"agent">>, <<"greet">> >>),
      Abs(<< <<"p">>, <<"agent">>, <<"greet", "js">> >>),
      Abs(<< <<"p">>, <<"agent">>, <<"nope">> >>),
      Abs(<< <<"p">>, <<"node_modules">>, <<"legacy">> >>),
      Abs(<< <<"p">>, <<"node_modules">>, <<"gone">> >>) }

\* ref.referrer.path
ReferrerPaths ==
    { Abs(<< <<"p">>, <<"agent">>, <<"index", "js">> >>),
      ProjectPkg("foo", <<"index", "js">>),
      ProjectPkg("frida-compile", <<"index", "js">>),
      ProjectPkg("frida-compiler", <<"index", "js">>),
      BufferShim(<<"index", "js">>),
      Abs(<< <<"frida-compile">>, <<"lib">>, <<"index", "js">> >>) }

\* modPath of detectModuleType: the files there are, one that is not there,
\* and a relative path
DetectPaths(fs) ==
    DOMAIN fs
    \cup { Abs(<< <<"p">>, <<"node_modules">>, <<"legacy">>, <<"lib">>, <<"nope", "js">> >>),
           Abs(<< <<"index", "js">> >>),
           << <<"agent">>, <<"lib">>, <<"index", "js">> >> }

ResolveInit ==
    /\ files \in ResolveWorlds
    /\ assets \in Catalogs(files)
    /\ program = <<>>
    /\ bundler = createBundler
    /\ pc = "idle"
    /\ runs = 0
    /\ previousRun = NoRun
    /\ WatchIdle
    /\ CompileIdle

\* one resolveModuleReference(ref, assets, system) call: the path before the
\* file system is looked at, the path after the directory step, the result
Resolve ==
    /\ \E name \in ReferenceNames, referrer \in ReferrerPaths :
           call' = [fn |-> "resolve", name |-> name, referrer |-> referrer,
                    base |-> ResolveBase(name, referrer, assets),
                    dir |-> ResolveDirectory(ResolveBase(name, referrer, assets), files),
                    res |-> resolveModuleReference([name |-> name, referrer |-> referrer],
                                                   assets, files)]
    /\ UNCHANGED <<files, assets, compileVars, program, bundler, buildVars, watchVars>>

\* one detectModuleType(modPath, sys) call
Detect ==
    /\ \E modPath \in DetectPaths(files) :
           call' = [fn |-> "detect", modPath |-> modPath,
                    type |-> detectModuleType(modPath, files)]
    /\ UNCHANGED <<files, assets, compileVars, program, bundler, buildVars, watchVars>>

ResolveNext == Resolve \/ Detect

ResolveSpec == ResolveInit /\ [][ResolveNext]_vars

(***************************************************************************)
(* processJSModule on its own: a module of either kind, with syntax nodes  *)
(* of every shape, scanned into the tables of a bundler that has processed *)
(* some references already.                                                *)
(***************************************************************************)
FooDataJson == << <<"foo">>, <<"data", "json">> >>

ScanNodes ==
    { Import(Relative("greet", "js")), Import(Bare("foo")), ExportFrom(Bare("dep")),
      ExportLocal, Require(Bare("legacy")), Require(Relative("data", "json")),
      Import(FooDataJson), Import(<< DotDotSeg, <<"dep", "js">> >>),
      Call("require", <<StringLiteral(Bare("dep"))>>),
      Call("require", <<>>),
      Call("require", <<StringLiteral(Bare("dep")), StringLiteral(Bare("foo"))>>),
      Call("require", <<OtherExpression>>),
      Call("other", <<StringLiteral(Bare("dep"))>>),
      Call("member", <<StringLiteral(Bare("dep"))>>),
      Call("other", <<Call("require", <<StringLiteral(Bare("gone"))>>), Require(Bare("dep"))>>),
      Call("require", <<Call("require", <<StringLiteral(Bare("nope"))>>)>>) }

\* the longest list of top-level nodes of a scanned file
MaxNodes == 2

ScanModules ==
    { [type |-> type, path |-> path, file |-> JsFile(1, refs), aliases |-> <<>>] :
          type \in {"esm", "cjs"},
          path \in {OutPath(EntryTs), ProjectPkg("legacy", <<"index", "js">>)},
          refs \in SeqsUpTo(ScanNodes, MaxNodes) }

ProcessedSets ==
    { {}, {Bare("foo"), Bare("dep")},
      {Abs(<< <<"p">>, <<"agent">>, <<"greet", "js">> >>), Bare("gone")} }

ScanFiles ==
    ( ProjectPkg("foo", <<"data", "json">>) :> JsonFile(1)
   @@ World(<<>>, <<>>, PlainLegacy) )

ScanInit ==
    /\ files = ScanFiles
    /\ assets = queryDefaultAssets(files)
    /\ program = <<>>
    /\ bundler = createBundler
    /\ pc = "idle"
    /\ runs = 0
    /\ previousRun = NoRun
    /\ WatchIdle
    /\ CompileIdle

\* the processJSModule(mod, processedModules, pendingModules, jsonFilePaths)
\* call of a module, on empty pendingModules and jsonFilePaths
Scan ==
    /\ call = NoCall
    /\ \E mod \in ScanModules, processed \in ProcessedSets :
           call' = [fn |-> "scan", mod |-> mod, processed |-> processed,
                    names |-> ScannedNames(mod),
                    st |-> processJSModule([createBundler EXCEPT !.processedModules = processed],
                                           mod)]
    /\ UNCHANGED <<files, assets, compileVars, program, bundler, buildVars, watchVars>>

ScanNext == Scan

ScanSpec == ScanInit /\ [][ScanNext]_vars

(***************************************************************************)
(* Builds of projects whose packages import each other and themselves.     *)
(***************************************************************************)
WithRefs(fs, path, refs) == [fs EXCEPT ![path].refs = refs]

FooIndexJs == ProjectPkg("foo", <<"index", "js">>)
DepIndexJs == ProjectPkg("dep", <<"index", "js">>)
LegacyIndexJs == ProjectPkg("legacy", <<"index", "js">>)
LegacyDepJs == ProjectPkg("legacy", <<"dep", "js">>)

CycleWorlds ==
    { \* foo and dep import each other
      WithRefs(World(<<Import(Bare("dep"))>>, <<>>, PlainLegacy), DepIndexJs,
               <<Import(Bare("foo"))>>),
      \* foo imports itself, by its name and by its file
      World(<<Import(Bare("foo")), Import(Relative("index", "js"))>>, <<>>, PlainLegacy),
      \* foo and dep import each other and themselves, and the shim of buffer
      WithRefs(World(<<Import(Bare("dep")), Import(Bare("foo")), Import(Bare("buffer"))>>,
                     <<Import(Relative("index", "js"))>>, PlainLegacy),
               DepIndexJs,
               <<ExportFrom(Relative("index", "js")), Import(Bare("foo"))>>),
      \* the two files of the CommonJS package legacy require each other
      WithRefs(World(<<>>, <<>>, PlainLegacy), LegacyDepJs,
               <<Require(Relative("index", "js")), Require(Bare("legacy"))>>) }

CycleEntryRefs ==
    { <<Import(Bare("foo"))>>, <<Import(Bare("dep"))>>,
      <<Import(Bare("foo")), Import(Bare("dep"))>>,
      <<Import(Bare("dep")), ExportFrom(Bare("dep"))>>,
      <<Import(Bare("legacy"))>>,
      <<Import(Bare("foo")), Import(Bare("legacy")), Import(Bare("nope"))>>,
      \* the project sources import each other
      <<Import(Relative("greet", "js")), Import(Relative("index", "js")),
        Import(Bare("foo"))>> }

CycleInit ==
    /\ files \in CycleWorlds
    /\ \E entryRefs \in CycleEntryRefs : program = ProgramOf(entryRefs, 1)
    /\ assets = queryDefaultAssets(files)
    /\ bundler = createBundler
    /\ pc = "idle"
    /\ runs = 0
    /\ previousRun = NoRun
    /\ WatchIdle
    /\ CompileIdle

\* A bundle() call that has begun goes on: the loop takes its next turn,
\* and the statements after the loop run.  This is WF_vars(DrainTurn \/
\* BuildFinish), with the enabling condition of that action, pc = "drain",
\* written out.
BundleGoesOn == []<>(pc # "drain") \/ []<><<DrainTurn \/ BuildFinish>>_vars

CycleSpec == CycleInit /\ [][BuildNext]_vars /\ BundleGoesOn

PassNext == EmitProgram \/ Pass

PassSpec == BuildInit /\ [][PassNext]_vars


(***************************************************************************)
(* watch(options), lines 2590-2678.  Time is in milliseconds.  The         *)
(* callbacks of the event loop run one at a time: the process.nextTick     *)
(* queue first, then the timers that are due and the file-watch callbacks. *)
(***************************************************************************)
\* setTimeout(..., 250), line 2646
DebounceMs == 250

\* the latest instant, the external changes and the front-end programs of a behaviour
MaxTime == 600
MaxChanges == 3
MaxPrograms == 2

\* how long the loop may stay idle between two events
TickSteps == {100}

\* the entrypoint the watch starts with, and what edits make of it
FirstEntry == <<Import(Bare("foo"))>>

WatchEntries ==
    { <<Import(Bare("foo"))>>,
      <<Import(Bare("foo")), ExportFrom(Bare("nope"))>>,
      <<Import(Bare("legacy"))>> }

Init ==
    /\ files = WithSourceMap(World(<<>>, <<>>, <<Require(Relative("dep", "js"))>>), "inline")
    /\ assets = queryDefaultAssets(files)
    /\ program = ProgramOf(FirstEntry, 1)
    /\ bundler = createBundler
    /\ options = DefaultOptions
    /\ frontEnd = NoDiagnostics
    /\ compilerOpts = makeCompilerOptions(files, "included")
    /\ delivered = <<>>
    /\ call = NoCall
    /\ pc = "watch"
    /\ runs = 0
    /\ previousRun = NoRun
    /\ state = "dirty"
    /\ timer = NoTimer
    /\ previousBundle = Null
    /\ now = 0
    /\ nextTicks = <<"createWatchProgram">>
    /\ watchers = {}
    /\ inFlight = 0
    /\ emitted = [compilationStarting |-> 0, bundleUpdated |-> 0, compilationFinished |-> 0]
    /\ lastUpdated = Null
    /\ changes = <<>>
    /\ starts = <<>>
    /\ cancelled = FALSE

\* a loop that enters a callback while a pass has not returned, as it would
\* if bundle() were awaited
CallbackEnteredAnytime(passes) == TRUE

\* a callback of the event loop is entered only when none is running:
\* rebundle() and bundler.bundle(), lines 2663-2675, return without awaiting
CallbackEntered(passes) == passes = 0

\* a watch callback that pushes a pending timer back, as a resetting debounce does
ArmTimerReset(t, time) == time + DebounceMs

\* lines 2640-2646: a pending timer is left alone
ArmTimer(t, time) == IF t # NoTimer THEN t ELSE time + DebounceMs

\* a pass that announces its bundle whatever the previous one was
ShouldEmitAlways(result, previous) == TRUE

\* line 2666: bundle !== previousBundle
ShouldEmit(result, previous) == result # previous

\* a pass whose failure forgets the previous bundle
PreviousBundleForgotten(previous, st) ==
    IF st.phase = "done" THEN (IF ShouldEmit(st.bundle, previous) THEN st.bundle ELSE previous)
    ELSE Null

\* lines 2664-2672: previousBundle after a pass
PreviousBundleAfter(previous, st) ==
    IF st.phase = "done" /\ ShouldEmit(st.bundle, previous) THEN st.bundle ELSE previous

\* rebundle() is entered, line 2664
RebundleStart ==
    /\ state' = "clean"
    /\ inFlight' = inFlight + 1

\* lines 2651-2658 and 2600-2626: ts.createWatchProgram creates the first
\* program, which is emitted, and afterProgramCreate queues a rebundle
CreateWatchProgram ==
    /\ nextTicks # <<>>
    /\ Head(nextTicks) = "createWatchProgram"
    /\ CallbackEntered(inFlight)
    /\ emitted' = [emitted EXCEPT !.compilationStarting = @ + 1]
    /\ bundler' = Emit(bundler, program, 1)
    /\ nextTicks' = Append(Tail(nextTicks), "rebundle")
    /\ UNCHANGED <<files, assets, call, compileVars, program, buildVars, state, timer, previousBundle, now,
                   watchers, inFlight, lastUpdated, changes, starts, cancelled>>

\* the front-end sees a project source change and creates the next program
FrontEndUpdate ==
    /\ nextTicks = <<>>
    /\ CallbackEntered(inFlight)
    /\ emitted.compilationStarting >= 1
    /\ emitted.compilationStarting < MaxPrograms
    /\ \E entryRefs \in WatchEntries : program' = ProgramOf(entryRefs, 1)
    /\ emitted' = [emitted EXCEPT !.compilationStarting = @ + 1]
    /\ bundler' = Emit(bundler, program', 1)
    /\ nextTicks' = <<"rebundle">>
    /\ UNCHANGED <<files, assets, call, compileVars, buildVars, state, timer, previousBundle, now,
                   watchers, inFlight, lastUpdated, changes, starts, cancelled>>

\* process.nextTick(rebundle), line 2652
TickRebundle ==
    /\ nextTicks # <<>>
    /\ Head(nextTicks) = "rebundle"
    /\ CallbackEntered(inFlight)
    /\ nextTicks' = Tail(nextTicks)
    /\ RebundleStart
    /\ UNCHANGED <<files, assets, call, compileVars, program, bundler, buildVars, timer, previousBundle, now,
                   watchers, emitted, lastUpdated, changes, starts, cancelled>>

\* lines 2637-2647: a watched external file changes on disk
ExternalChange ==
    /\ nextTicks = <<>>
    /\ CallbackEntered(inFlight)
    /\ Len(changes) < MaxChanges
    /\ \E path \in watchers :
          /\ files' = [files EXCEPT ![path].v = 3 - @]
          /\ bundler' = invalidate(bundler, path)
    /\ state' = "dirty"
    /\ changes' = Append(changes, [t |-> now, armed |-> timer = NoTimer])
    /\ timer' = ArmTimer(timer, now)
    /\ UNCHANGED <<assets, call, compileVars, program, buildVars, previousBundle, now, nextTicks,
                   watchers, inFlight, emitted, lastUpdated, starts, cancelled>>

\* lines 2643-2646: the debounce timer expires
TimerFire ==
    /\ nextTicks = <<>>
    /\ CallbackEntered(inFlight)
    /\ timer # NoTimer
    /\ now >= timer
    /\ timer' = NoTimer
    /\ RebundleStart
    /\ starts' = Append(starts, now)
    /\ UNCHANGED <<files, assets, call, compileVars, program, bundler, buildVars, previousBundle, now,
                   nextTicks, watchers, emitted, lastUpdated, changes, cancelled>>

\* lines 2664-2674: the pass itself, and the events that follow it
RebundleEnd ==
    /\ inFlight > 0
    /\ bundler' = bundle(bundler, program, entrypoint, assets, files)
    /\ watchers' = watchers \cup Range(bundler'.added)
    /\ previousBundle' = PreviousBundleAfter(previousBundle, bundler')
    /\ emitted' = [emitted EXCEPT
                     !.bundleUpdated =
                         IF bundler'.phase = "done" /\ ShouldEmit(bundler'.bundle, previousBundle)
                         THEN @ + 1 ELSE @,
                     !.compilationFinished = @ + 1]
    /\ lastUpdated' = IF bundler'.phase = "done" /\ ShouldEmit(bundler'.bundle, previousBundle)
                      THEN bundler'.bundle ELSE lastUpdated
    /\ inFlight' = inFlight - 1
    /\ UNCHANGED <<files, assets, call, compileVars, program, buildVars, state, timer, now, nextTicks,
                   changes, starts, cancelled>>

\* the instant the idle loop wakes up at: after d ms, or when the pending
\* timer is due if that is sooner
WakeUp(t, time, d) == IF t # NoTimer /\ t < time + d THEN t ELSE time + d

\* time passes while the loop is idle and no timer is overdue
Tick ==
    /\ nextTicks = <<>>
    /\ inFlight = 0
    /\ timer # NoTimer => now < timer
    /\ \E d \in TickSteps :
          /\ WakeUp(timer, now, d) <= MaxTime
          /\ now' = WakeUp(timer, now, d)
    /\ UNCHANGED <<files, assets, call, compileVars, program, bundler, buildVars, state, timer, previousBundle,
                   nextTicks, watchers, inFlight, emitted, lastUpdated, changes, starts,
                   cancelled>>

\* the caller of watch() gives up on it; watch() returned it the emitter
\* only (line 2677), and nothing of the controller is told
Cancel ==
    /\ nextTicks = <<>>
    /\ inFlight = 0
    /\ ~cancelled
    /\ cancelled' = TRUE
    /\ UNCHANGED <<files, assets, call, compileVars, program, bundler, buildVars, state, timer, previousBundle,
                   now, nextTicks, watchers, inFlight, emitted, lastUpdated, changes, starts>>

Next ==
    \/ CreateWatchProgram
    \/ FrontEndUpdate
    \/ TickRebundle
    \/ ExternalChange
    \/ TimerFire
    \/ RebundleEnd
    \/ Tick
    \/ Cancel

Spec == Init /\ [][Next]_vars


(***************************************************************************)
(* Watch mode: properties of the controller.                               *)
(***************************************************************************)
\* the change events that found no timer pending
ArmedChanges == SelectSeq(changes, LAMBDA c : c.armed)

C1_OnePerWindow ==
    \A i, j \in 1..Len(changes) :
        (i < j /\ changes[i].armed /\ changes[j].t - changes[i].t < DebounceMs)
            => ~changes[j].armed

C1_StartsFollowArming ==
    /\ Len(starts) <= Len(ArmedChanges)
    /\ \A k \in 1..Len(starts) : starts[k] = ArmedChanges[k].t + DebounceMs
    /\ \A k \in 1..Len(ArmedChanges) :
           ArmedChanges[k].t + DebounceMs < now => k <= Len(starts)

C1_LateChangeArms ==
    \A i \in 1..Len(changes) :
        (i = 1 \/ changes[i].t - changes[i - 1].t > DebounceMs) => changes[i].armed

\* C1: the change events that fall within 250 ms of a change event that
\* found no timer pending start no rebundle of their own, so the events of
\* one window start at most one debounce rebundle, 250 ms after the first;
\* a change event more than 250 ms after the previous one finds no timer
\* pending and starts exactly one more rebundle.
C1_Debounce == C1_OnePerWindow /\ C1_StartsFollowArming /\ C1_LateChangeArms

C1_Witness ==
    /\ Len(changes) = 3
    /\ changes[2].t - changes[1].t < DebounceMs
    /\ changes[3].t - changes[2].t > DebounceMs
    /\ Len(starts) = 2
    /\ inFlight = 0

\* change events at t = 0, 100 and 200 ms, and no other event
C2_Scenario ==
    /\ Len(changes) = 3
    /\ changes[1].t = 0
    /\ changes[2].t = 100
    /\ changes[3].t = 200
    /\ emitted.compilationStarting = 1
    /\ ~cancelled

\* the passes run since the first one, which the program's creation started
PassesAfterFirst == emitted.compilationFinished + inFlight - 1

\* C2 as stated: exactly one rebundle runs, and it starts at t = 450 ms or
\* later.
C2_StartsAfterLastChange ==
    C2_Scenario =>
        /\ PassesAfterFirst = Len(starts)
        /\ Len(starts) <= 1
        /\ \A k \in 1..Len(starts) : starts[k] >= 200 + DebounceMs

\* C2 (amended): with change events at t = 0, 100 and 200 ms and no other
\* event, exactly one rebundle runs, and it starts at t = 250 ms, that is
\* 250 ms after the first change event: the later ones leave the pending
\* timer alone.
C2_StartsAfterFirstChange ==
    C2_Scenario =>
        /\ PassesAfterFirst = Len(starts)
        /\ Len(starts) <= 1
        /\ \A k \in 1..Len(starts) : starts[k] = 0 + DebounceMs
        /\ now > DebounceMs => Len(starts) = 1

C2_Witness ==
    /\ C2_Scenario
    /\ starts = <<DebounceMs>>
    /\ now >= 200 + DebounceMs
    /\ inFlight = 0
    /\ emitted.compilationFinished = 2

\* a step in which a pass ends
PassEnds == inFlight' < inFlight

C3_Step ==
    PassEnds =>
        /\ emitted'.compilationFinished = emitted.compilationFinished + 1
        /\ (bundler'.phase = "done" /\ bundler'.bundle = previousBundle) =>
               /\ emitted'.bundleUpdated = emitted.bundleUpdated
               /\ previousBundle' = previousBundle
        /\ emitted'.bundleUpdated # emitted.bundleUpdated =>
               /\ emitted'.bundleUpdated = emitted.bundleUpdated + 1
               /\ lastUpdated' = bundler'.bundle
               /\ lastUpdated' # lastUpdated

\* C3: a pass whose bundle equals previousBundle emits no bundleUpdated but
\* does emit compilationFinished; previousBundle is always the payload of
\* the latest bundleUpdated, and a bundleUpdated payload differs from the
\* one before it.
C3_NoOpSuppressed == [](previousBundle = lastUpdated) /\ [][C3_Step]_vars

\* two passes have ended, the second with the bundle of the first
C3_Witness ==
    /\ inFlight = 0
    /\ bundler.phase = "done"
    /\ bundler.bundle = previousBundle
    /\ emitted.compilationFinished = 2
    /\ emitted.bundleUpdated = 1

C4_Step ==
    (PassEnds /\ bundler'.phase = "failed") =>
        /\ previousBundle' = previousBundle
        /\ lastUpdated' = lastUpdated
        /\ emitted'.bundleUpdated = emitted.bundleUpdated
        /\ emitted'.compilationFinished = emitted.compilationFinished + 1
        /\ pc' = "watch"

\* C4: when bundle() throws in a pass of the watch, the watch goes on,
\* previousBundle keeps its value, the pass emits no bundleUpdated, and it
\* emits compilationFinished.
C4_FailureContained == [][C4_Step]_vars

\* a pass has failed after one that had produced a bundle
C4_Witness ==
    /\ inFlight = 0
    /\ bundler.phase = "failed"
    /\ bundler.error = "unable to resolve"
    /\ previousBundle # Null
    /\ emitted.compilationFinished >= 2

\* C5: at most one pass is in progress at any time.
C5_OnePassInFlight == inFlight <= 1

\* a pass is in progress after a change callback, a timer expiry and a
\* second program
C5_Witness ==
    /\ inFlight = 1
    /\ changes # <<>>
    /\ starts # <<>>
    /\ emitted.compilationStarting >= 2

C6_Step ==
    cancelled =>
        /\ starts' = starts
        /\ inFlight' <= inFlight
        /\ emitted'.bundleUpdated = emitted.bundleUpdated
        /\ emitted'.compilationFinished = emitted.compilationFinished

\* C6: once the watch is cancelled, no rebundle starts and no bundleUpdated
\* or compilationFinished is emitted (the pending timer having been cleared
\* and the file watches released).
C6_QuietAfterCancel == [][C6_Step]_vars


(***************************************************************************)
(* One-shot mode: properties of a finished pass.                           *)
(***************************************************************************)
Finished == pc \in {"returned", "threw"}

ProgramOutPaths == {OutPath(program[i].fileName) : i \in 1..Len(program)}

CjsPaths(st) == {st.modules[n].path : n \in {m \in DOMAIN st.modules : st.modules[m].type = "cjs"}}

\* the asset a reference of module mod stands for is in the asset table
AssetPresent(path) ==
    /\ assetNameFromFilePath(path).ok
    /\ assetNameFromFilePath(path).name \in DOMAIN bundler.output

ResolvesToAsset(mod, ref) ==
    IF ref \in ProgramOutPaths THEN AssetPresent(ref)
    ELSE /\ resolveModuleReference([name |-> ref, referrer |-> mod.path], assets, files).ok
         /\ AssetPresent(resolveModuleReference([name |-> ref, referrer |-> mod.path], assets, files).path)

ReferencePresent(mod, name) ==
    IF EndsWithExt(name, "json")
    THEN /\ AssetPresent(RefOf(mod, name))
         /\ bundler.output[assetNameFromFilePath(RefOf(mod, name)).name].kind = "jsonmodule"
    ELSE ResolvesToAsset(mod, RefOf(mod, name))

\* C7: after a successful one-shot bundle, every import, re-export (and, in
\* a cjs module, require) reference of every module record resolves, from
\* that module, to an asset of the asset table; a .json reference has a
\* synthesized-module asset.
C7_GraphClosure ==
    pc = "returned" =>
        \A n \in DOMAIN bundler.modules :
            \A i \in 1..Len(ScannedNames(bundler.modules[n])) :
                ReferencePresent(bundler.modules[n], ScannedNames(bundler.modules[n])[i].name)

\* the references taken from the queue in this pass that do not resolve
FailedReferences ==
    {r.name : r \in {q \in bundler.dequeued : ~resolveModuleReference(q, assets, files).ok}}

C8_ReportedOnce ==
    (Finished /\ bundler.error = "unable to resolve") =>
        /\ pc = "threw"
        /\ bundler.pendingModules = <<>>
        /\ Range(bundler.report) = FailedReferences
        /\ IsSorted(bundler.report)

C8_NoBundleWhenMissing ==
    (Finished /\ FailedReferences # {} /\ bundler.pendingModules = <<>>) =>
        /\ pc = "threw"
        /\ bundler.error = "unable to resolve"
        /\ bundler.bundle = <<>>

C8_LoopGoesOn ==
    (pc = "drain" /\ pc' # pc) =>
        \/ bundler.pendingModules = <<>>
        \/ bundler'.error # "unable to resolve"

\* C8: a reference that cannot be resolved does not end the pass: the drain
\* loop runs until the pending queue is empty, and only then the pass fails,
\* with one "unable to resolve" error whose list holds exactly the
\* references that failed to resolve in the pass, each once, sorted.
C8_AllFailuresReported ==
    /\ [](C8_ReportedOnce /\ C8_NoBundleWhenMissing)
    /\ [][C8_LoopGoesOn]_vars

\* a pass that went on after a first failure and reported two failures
C8_Witness ==
    /\ pc = "threw"
    /\ bundler.error = "unable to resolve"
    /\ Len(bundler.report) >= 2
    /\ Cardinality(bundler.dequeued) >= 3

\* C9 as stated: whenever a module of the pass is classified cjs, the pass
\* fails with the CommonJS-detected error listing the cjs paths, sorted.
C9_CjsAlwaysReported ==
    (Finished /\ CjsPaths(bundler) # {}) =>
        /\ pc = "threw"
        /\ bundler.error = "detected CommonJS"
        /\ Range(bundler.report) = CjsPaths(bundler)
        /\ IsSorted(bundler.report)

\* C9 (amended): a bundle is returned only if no module record has kind cjs;
\* when a module is classified cjs and every reference of the pass has
\* resolved, the pass fails with the CommonJS-detected error listing the
\* paths of all cjs modules, sorted, and returns no bundle.
C9_CjsRejected ==
    /\ pc = "returned" => (CjsPaths(bundler) = {} /\ bundler.bundle # <<>>)
    /\ (Finished /\ CjsPaths(bundler) # {}) =>
          /\ pc = "threw"
          /\ bundler.bundle = <<>>
          /\ bundler.missing = {} =>
                /\ bundler.error = "detected CommonJS"
                /\ Range(bundler.report) = CjsPaths(bundler)
                /\ IsSorted(bundler.report)

C9_Witness ==
    /\ pc = "threw"
    /\ bundler.error = "detected CommonJS"
    /\ Len(bundler.report) >= 2

\* C10: with both an unresolvable reference and a cjs module the pass fails
\* with the unresolvable error; once the reference resolves, the next build
\* fails with the CommonJS-detected error carrying the sorted cjs paths.
C10_UnresolvableBeforeCjs ==
    /\ (Finished /\ bundler.missing # {} /\ CjsPaths(bundler) # {}) =>
          (pc = "threw" /\ bundler.error = "unable to resolve")
    /\ (Finished /\ previousRun.error = "unable to resolve" /\ previousRun.legacy # <<>>
                 /\ bundler.missing = {}) =>
          /\ pc = "threw"
          /\ bundler.error = "detected CommonJS"
          /\ bundler.report = previousRun.legacy
          /\ Range(bundler.report) = CjsPaths(bundler)
          /\ IsSorted(bundler.report)

C10_Witness ==
    /\ runs = 2
    /\ pc = "threw"
    /\ previousRun.error = "unable to resolve"
    /\ previousRun.legacy # <<>>
    /\ bundler.error = "detected CommonJS"

\* the names of the asset table, and those of the manifest in their order
AssetNames == DOMAIN bundler.output

ManifestNames ==
    LET sizes == SelectSeq(bundler.bundle, LAMBDA c : c.t = "size")
    IN [i \in 1..Len(sizes) |-> sizes[i].name]

AssetName(segs) == <<EmptySeg>> \o segs

\* C11: with an entrypoint that imports "./greet" and the project source
\* /p/agent/greet.ts, the build returns a bundle whose assets are exactly
\* /agent/greet.js, /agent/greet.js.map, /agent/index.js and
\* /agent/index.js.map, and whose manifest begins with /agent/index.js.map
\* and /agent/index.js.
C11_ExtensionLessImport ==
    (Finished /\ program = ProgramOf(<<Import(ExtensionLess("greet"))>>, 1)) =>
        /\ pc = "returned"
        /\ AssetNames = { AssetName(<< <<"agent">>, <<"greet", "js">> >>),
                          AssetName(<< <<"agent">>, <<"greet", "js", "map">> >>),
                          AssetName(<< <<"agent">>, <<"index", "js">> >>),
                          AssetName(<< <<"agent">>, <<"index", "js", "map">> >>) }
        /\ Len(ManifestNames) >= 2
        /\ ManifestNames[1] = AssetName(<< <<"agent">>, <<"index", "js", "map">> >>)
        /\ ManifestNames[2] = AssetName(<< <<"agent">>, <<"index", "js">> >>)

\* the module records of the file at path, by asset name
RecordsOf(path) == {n \in DOMAIN bundler.modules : bundler.modules[n].path = path}

DequeuedNames == {r.name : r \in bundler.dequeued}

\* C12: when "buffer" and "node:buffer" are both imported in a pass that
\* returns a bundle, the shim file has one module record and one asset, and
\* the alias set of that record holds both "buffer" and "node:buffer".
C12_AliasesAccumulate ==
    (pc = "returned" /\ {Bare("buffer"), Bare("node:buffer")} \subseteq DequeuedNames) =>
        /\ Cardinality(RecordsOf(BufferShim(<<"index", "js">>))) = 1
        /\ \A n \in RecordsOf(BufferShim(<<"index", "js">>)) :
               /\ {Bare("buffer"), Bare("node:buffer")} \subseteq Range(bundler.modules[n].aliases)
               /\ n \in AssetNames
               /\ Len(SelectSeq(ManifestNames, LAMBDA x : x = n)) = 1
        /\ Len(SelectSeq(bundler.scanned, LAMBDA x : x = BufferShim(<<"index", "js">>))) = 1

\* "buffer" and "node:buffer" were imported by two different modules
C12_Witness ==
    /\ pc = "returned"
    /\ \E r1, r2 \in bundler.dequeued :
           /\ r1.name = Bare("buffer")
           /\ r2.name = Bare("node:buffer")
           /\ r1.referrer # r2.referrer

\* the require("....json") calls of a module's text
RequiredJson(mod) ==
    SelectSeq(mod.file.refs, LAMBDA r : r.k = "require" /\ EndsWithExt(r.name, "json"))

\* C13: when a module of the graph holds a require("./data.json"), the
\* reference is in the JSON path set, and the bundle that is returned holds
\* an asset for data.json whose content is the synthesized module.
C13_RequiredJsonBundled ==
    pc = "returned" =>
        \A n \in DOMAIN bundler.modules :
            \A i \in 1..Len(RequiredJson(bundler.modules[n])) :
                /\ RefOf(bundler.modules[n], RequiredJson(bundler.modules[n])[i].name)
                       \in Range(bundler.jsonFilePaths)
                /\ AssetPresent(RefOf(bundler.modules[n], RequiredJson(bundler.modules[n])[i].name))
                /\ bundler.output[assetNameFromFilePath(
                        RefOf(bundler.modules[n], RequiredJson(bundler.modules[n])[i].name)).name].kind
                      = "jsonmodule"

\* resolving name from the module at referrer gives the file at path
ResolvesTo(name, referrer, path) ==
    /\ resolveModuleReference([name |-> name, referrer |-> referrer], assets, files).ok
    /\ resolveModuleReference([name |-> name, referrer |-> referrer], assets, files).path = path

\* C14: every alias of a module record, resolved as a reference name from
\* any module of the graph, gives the path of that record.
C14_AliasesResolveBack ==
    pc = "returned" =>
        \A n, r \in DOMAIN bundler.modules :
            \A i \in 1..Len(bundler.modules[n].aliases) :
                ResolvesTo(bundler.modules[n].aliases[i], bundler.modules[r].path,
                           bundler.modules[n].path)

\* the resolutions of this build() call and of the one before it
Resolutions == bundler.resolved \cup previousRun.resolved

C15_Total ==
    \A e \in Resolutions :
        /\ e.res.ok \in BOOLEAN
        /\ e.res.ok => /\ isAbsolute(e.res.path)
                       /\ fileExists(e.fs, e.res.path)
                       /\ e.res.needsAlias \in BOOLEAN
        /\ (~e.res.ok /\ e \in bundler.resolved) => e.ref.name \in bundler.missing

C15_Deterministic ==
    \A e1, e2 \in Resolutions :
        (e1.ref.name = e2.ref.name /\ e1.ref.referrer = e2.ref.referrer /\ e1.fs = e2.fs)
            => e1.res = e2.res

C16_SameBundleAgain ==
    (runs >= 2 /\ Finished /\ previousRun.phase = "done") =>
        /\ pc = "returned"
        /\ bundler.bundle = previousRun.bundle

\* where the entrypoint's compiled .js stands in the manifest
EntryIndex == IF AppendExt(entrypoint.output, "map") \in AssetNames THEN 2 ELSE 1

IsMapName(n) == EndsWithExt(n, "map")

C17_EntrypointFirst ==
    /\ Len(ManifestNames) >= EntryIndex
    /\ ManifestNames[EntryIndex] = entrypoint.output
    /\ EntryIndex = 2 => ManifestNames[1] = AppendExt(entrypoint.output, "map")

C17_OthersSorted ==
    \A i, j \in 1..Len(ManifestNames) :
        (/\ EntryIndex < i /\ i < j
         /\ ~IsMapName(ManifestNames[i]) /\ ~IsMapName(ManifestNames[j]))
            => StrLess(ManifestNames[i], ManifestNames[j])

C17_MapsBeforePeers ==
    /\ \A n \in AssetNames :
           ~IsMapName(n) => Len(SelectSeq(ManifestNames, LAMBDA x : x = n)) = 1
    /\ \A i \in 1..Len(ManifestNames) :
           /\ (~IsMapName(ManifestNames[i]) /\ AppendExt(ManifestNames[i], "map") \in AssetNames)
                  => (i > 1 /\ ManifestNames[i - 1] = AppendExt(ManifestNames[i], "map"))
           /\ IsMapName(ManifestNames[i])
                  => (/\ i < Len(ManifestNames)
                      /\ ManifestNames[i] = AppendExt(ManifestNames[i + 1], "map"))

\* C17: the manifest of a returned bundle starts with the entrypoint's .map,
\* when there is one, and the entrypoint's .js; the other assets that are
\* not maps follow in sorted order of their names, each right after its own
\* .map when that map is in the asset table.
C17_EmissionOrder ==
    pc = "returned" => (C17_EntrypointFirst /\ C17_OthersSorted /\ C17_MapsBeforePeers)

\* a bundle with assets that sort before the entrypoint and after it
C17_Witness ==
    /\ pc = "returned"
    /\ AssetName(<< <<"agent">>, <<"greet", "js", "map">> >>) \in AssetNames
    /\ \E n \in AssetNames : ~IsMapName(n) /\ StrLess(entrypoint.output, n)
    /\ \E n \in AssetNames : ~IsMapName(n) /\ StrLess(n, entrypoint.output)

\* the manifest's size lines and the payloads after the cut, as a loader
\* reads them: the i-th payload belongs to the i-th size line
ManifestSizes == SelectSeq(bundler.bundle, LAMBDA c : c.t = "size")
Payloads == SelectSeq(bundler.bundle, LAMBDA c : c.t = "data")

\* the table a loader recovers from the bundle
ParsedAssets ==
    [n \in {ManifestSizes[i].name : i \in 1..Len(ManifestSizes)} |->
        Payloads[CHOOSE i \in 1..Len(ManifestSizes) : ManifestSizes[i].name = n].data]

\* C18: a returned bundle holds every entry of the asset table once in the
\* manifest and once in the payload, in the same order, every declared
\* length is the byte length of its payload, and reading the bundle back by
\* the manifest gives the asset table's names and contents.
C18_LosslessEncoding ==
    pc = "returned" =>
        /\ Len(Payloads) = Len(ManifestSizes)
        /\ \A n \in AssetNames : Len(SelectSeq(ManifestNames, LAMBDA x : x = n)) = 1
        /\ \A i \in 1..Len(ManifestSizes) :
               /\ ManifestSizes[i].name \in AssetNames
               /\ Payloads[i].data = bundler.output[ManifestSizes[i].name]
               /\ ManifestSizes[i].n = ByteLength(Payloads[i].data)
        /\ ParsedAssets = bundler.output

\* C19: whenever the asset table holds a .map, it holds the asset the map
\* belongs to, the name without the trailing ".map".
C19_MapsHavePeers ==
    \A n \in AssetNames :
        IsMapName(n) => \E x \in AssetNames : AppendExt(x, "map") = n

\* the files the references of the latest pass resolved to
ResolvedPaths == {e.res.path : e \in {x \in bundler.resolved : x.res.ok}}

\* C20: the files that the references of a pass resolve to have asset names,
\* two different files have two different names, and in a returned bundle
\* the module record under a file's asset name is the record of that file.
C20_NamingInjective ==
    Finished =>
        /\ \A p \in ResolvedPaths : assetNameFromFilePath(p).ok
        /\ \A p, q \in ResolvedPaths :
               assetNameFromFilePath(p).name = assetNameFromFilePath(q).name => p = q
        /\ pc = "returned" =>
               \A p \in ResolvedPaths :
                   /\ assetNameFromFilePath(p).name \in DOMAIN bundler.modules
                   /\ bundler.modules[assetNameFromFilePath(p).name].path = p

\* C21: no .js asset of a returned bundle, emitted by the front-end or read
\* from a dependency, holds a top-level "use strict" statement.
C21_NoUseStrict ==
    pc = "returned" =>
        /\ \A n \in AssetNames : EndsWithExt(n, "js") => ~bundler.output[n].useStrict
        /\ \A i \in 1..Len(Payloads) :
               EndsWithExt(ManifestSizes[i].name, "js") => ~Payloads[i].data.useStrict

\* the JSON value of /p/agent/data.json and the asset made of it
DataJsonName == AssetName(<< <<"agent">>, <<"data", "json">> >>)
DataJsonValue == files[DataJson].json
DataJsonModule == bundler.output[DataJsonName]
DataJsonBundled == pc = "returned" /\ DataJsonName \in AssetNames

\* the keys of the model that are written as an IdentifierName
IdentifierNames == {"a", "default", "d", "d1", "hasOwnProperty"}
LegalBinding(key) == key \in IdentifierNames /\ key \notin ReservedWords

\* C22: the module synthesized from data.json exports the whole value by
\* default; for a JSON object it has a named export for the own keys that
\* are legal identifiers and not reserved words, and for no other key; for
\* any other JSON value it has no named export.
C22_JsonExports ==
    Finished =>
        /\ DataJsonBundled
        /\ DataJsonModule.kind = "jsonmodule"
        /\ DataJsonModule.v = files[DataJson].v
        /\ DataJsonModule.json.keys = DataJsonValue.keys
        /\ DataJsonValue.shape = "object" =>
               Range(DataJsonModule.json.exports)
                   = {k \in Range(DataJsonValue.keys) : LegalBinding(k)}
        /\ DataJsonValue.shape # "object" => DataJsonModule.json.exports = <<>>

\* the candidates before name in d, d1, d2, ...
EarlierCandidates(name) ==
    {CandidateNames[i] : i \in {j \in 1..Len(CandidateNames) :
                                   \E k \in (j + 1)..Len(CandidateNames) : CandidateNames[k] = name}}

\* C23: the binding of the module synthesized from a JSON object is the
\* first of d, d1, d2, ... that is not an own key of the object, so it is
\* no own key and no named export.
C23_BindingFresh ==
    (DataJsonBundled /\ IsObject(DataJsonValue)) =>
        /\ DataJsonModule.json.binding \in Range(CandidateNames)
        /\ DataJsonModule.json.binding \notin Range(DataJsonValue.keys)
        /\ EarlierCandidates(DataJsonModule.json.binding) \subseteq Range(DataJsonValue.keys)
        /\ DataJsonModule.json.binding \notin Range(DataJsonModule.json.exports)

\* the object has the members d and d1, and the binding is d2
C23_Witness ==
    /\ DataJsonBundled
    /\ DataJsonValue.shape = "object"
    /\ {"d", "d1"} \subseteq Range(DataJsonValue.keys)
    /\ DataJsonModule.json.binding = "d2"
    /\ "d" \in Range(DataJsonModule.json.exports)

\* what the project's tsconfig.json sets, Unset throughout without the file
TsConfigOptions ==
    IF fileExists(files, TsConfigPath) THEN files[TsConfigPath].compilerOptions
    ELSE NoCompilerOptions

\* the values the bundler gives the options that are its own
BundlerFixed ==
    [module |-> "ES2020", moduleResolution |-> "Node16", rootDir |-> "/p", outDir |-> "/",
     sourceMap |-> IF sourceMaps = "included" THEN "true" ELSE Unset,
     inlineSourceMap |-> IF sourceMaps = "included" THEN "false" ELSE Unset,
     noEmit |-> Unset]

C24_SoftFollowTsConfig ==
    \A name \in softOptionNames :
        compilerOpts[name] = IF TsConfigOptions[name] # Unset THEN TsConfigOptions[name]
                             ELSE makeDefaultCompilerOptions[name]

C24_FixedStay == \A name \in DOMAIN BundlerFixed : compilerOpts[name] = BundlerFixed[name]

\* C24: in the compiler options of a build, target, lib and strict are what
\* tsconfig.json sets, or the baseline; module, moduleResolution, rootDir,
\* outDir, sourceMap and inlineSourceMap have the bundler's values whatever
\* tsconfig.json says and for both sourceMaps settings, and noEmit is unset.
C24_FixedOptions ==
    runs >= 1 => (C24_SoftFollowTsConfig /\ C24_FixedStay)

\* the diagnostics the front-end has for the phases that ran
C25_PhaseDiagnostics ==
    [i \in 1..Len(frontEnd.preEmit) |-> Diagnostic("preEmit", frontEnd.preEmit[i])]
    \o (IF \E i \in 1..Len(frontEnd.preEmit) : frontEnd.preEmit[i] = "error" THEN <<>>
        ELSE [i \in 1..Len(frontEnd.emit) |-> Diagnostic("emit", frontEnd.emit[i])])

C25_ErrorReported ==
    \/ \E i \in 1..Len(frontEnd.preEmit) : frontEnd.preEmit[i] = "error"
    \/ \E i \in 1..Len(frontEnd.emit) : frontEnd.emit[i] = "error"
    \/ frontEnd.emitSkipped

\* C25: a build whose front-end reports an error diagnostic before or at
\* emit, or skips the emit, fails with "compilation failed" and returns no
\* bundle, after onDiagnostic has got every diagnostic of the phases that
\* ran, in order; without an error and with the emit done, the build does
\* not fail with "compilation failed".
C25_CompilationFailed ==
    (runs >= 1 /\ pc # "idle") =>
        /\ options.onDiagnostic => delivered = C25_PhaseDiagnostics
        /\ C25_ErrorReported =>
               /\ pc = "threw"
               /\ bundler.error = "compilation failed"
               /\ bundler.bundle = <<>>
        /\ ~C25_ErrorReported => bundler.error # "compilation failed"

\* builds with warnings alone that returned a bundle, after one that an
\* emit error made fail
C25_Witness ==
    /\ pc = "threw"
    /\ bundler.error = "compilation failed"
    /\ options.onDiagnostic
    /\ frontEnd.preEmit = <<"warning", "message">>
    /\ frontEnd.emit = <<"suggestion", "error">>
    /\ Len(delivered) = 4

\* the alias that a reference name is entered as, lines 3015-3021
AliasFor(refName) == IF isAbsolute(refName) THEN AliasOfAbsolute(refName) ELSE refName

\* the module records of the project's sources
ProjectRecords ==
    {assetNameFromFilePath(OutPath(program[i].fileName)).name : i \in 1..Len(program)}

C26_ProjectSourcesEsm ==
    \A n \in ProjectRecords : n \in DOMAIN bundler.modules /\ bundler.modules[n].type = "esm"

C26_EntrypointUnaliased ==
    bundler.modules[entrypoint.output].aliases = <<>>

C26_AliasesFromReferences ==
    \A n \in DOMAIN bundler.modules :
        \A alias \in Range(bundler.modules[n].aliases) :
            \E e \in bundler.resolved :
                /\ e.res.ok
                /\ e.res.needsAlias
                /\ assetNameFromFilePath(e.res.path).name = n
                /\ AliasFor(e.ref.name) = alias

\* C26: after a pass, the module record of every project source has kind
\* esm, the record of the entrypoint has no alias, and every alias of a
\* record is the name of a reference that resolved to the record's module
\* with needs-alias true.
C26_ModuleRecords ==
    (Finished /\ bundler.error # "compilation failed") =>
        (C26_ProjectSourcesEsm /\ C26_EntrypointUnaliased /\ C26_AliasesFromReferences)

(***************************************************************************)
(* C27 .. C28: the path a bare reference stands for.                       *)
(***************************************************************************)
\* the package name of a reference: its first segment, or its first two
\* when the first starts with "@"
Scoped(name) == StartsWithAt(name[1])
HasPkgName(name) == Len(name) >= (IF Scoped(name) THEN 2 ELSE 1)
PkgNameOf(name) == IF Scoped(name) THEN SubSeq(name, 1, 2) ELSE SubSeq(name, 1, 1)
SubPathOf(name) == SubSeq(name, IF Scoped(name) THEN 3 ELSE 2, Len(name))

Shimmed(name) == HasPkgName(name) /\ PkgNameOf(name) \in DOMAIN assets.shims

ResolveCalled == call.fn = "resolve"

\* C27: a non-absolute reference whose package name is in the shim catalog
\* resolves under that shim's root and never to the package of that name in
\* the project's node_modules, with needs-alias = true; a shim root ending
\* in .js is the final path whatever the subpath, any other root has the
\* subpath joined to it.
C27_ShimResolution ==
    (ResolveCalled /\ ~isAbsolute(call.name) /\ Shimmed(call.name)) =>
        LET root == assets.shims[PkgNameOf(call.name)] IN
        /\ call.base.needsAlias
        /\ call.base.path = IF EndsWithExt(root, "js") THEN root
                            ELSE join(root, SubPathOf(call.name))
        /\ call.res.ok =>
              /\ call.res.needsAlias
              /\ HasLeadingSegments(call.res.path, root)
              /\ ~HasLeadingSegments(call.res.path,
                                     join(assets.projectNodeModulesDir, PkgNameOf(call.name)))
              /\ EndsWithExt(root, "js") => call.res.path = root

\* "util/lib" resolved to the one-file shim of util, in a project that has
\* a package util installed
C27_Witness ==
    /\ ResolveCalled
    /\ call.name = Sub("util", << <<"lib">> >>)
    /\ Shimmed(call.name)
    /\ fileExists(files, ProjectPkg("util", <<"index", "js">>))
    /\ call.res.ok
    /\ call.res.path = ShimFile(<<"util", "js">>)
    /\ call.res.needsAlias

\* the path lies inside the directory
Inside(path, dir) == Len(path) > Len(dir) /\ HasLeadingSegments(path, dir)

InsideCompiler(referrer) ==
    \/ Inside(referrer, compilerRoot)
    \/ Inside(referrer, assets.shimDir)
    \/ Inside(referrer, join(assets.projectNodeModulesDir, LinkedCompilerName))

\* C28: a non-absolute reference to a package that is not shimmed is looked
\* for under the shim directory when its referrer lies inside the compiler
\* root, the shim directory or <project>/node_modules/frida-compile, and
\* under <project>/node_modules otherwise; before the package manifest is
\* looked at its needs-alias flag is true exactly when there is a subpath
\* after the package name.
C28_BaseSelection ==
    (ResolveCalled /\ ~isAbsolute(call.name) /\ ~Shimmed(call.name)) =>
        /\ call.base.path = join(IF InsideCompiler(call.referrer) THEN assets.shimDir
                                 ELSE assets.projectNodeModulesDir,
                                 call.name)
        /\ call.base.needsAlias = (SubPathOf(call.name) # <<>>)

\* the needs-alias half of C28 on its own
C28_NeedsAlias ==
    (ResolveCalled /\ ~isAbsolute(call.name) /\ ~Shimmed(call.name)) =>
        call.base.needsAlias = (SubPathOf(call.name) # <<>>)

\* the base of C28 for every referrer but those in a directory whose name
\* goes on where "frida-compile" ends
C28_BaseSelectionElsewhere ==
    (/\ ResolveCalled /\ ~isAbsolute(call.name) /\ ~Shimmed(call.name)
     /\ call.referrer # ProjectPkg("frida-compiler", <<"index", "js">>)) =>
        call.base.path = join(IF InsideCompiler(call.referrer) THEN assets.shimDir
                              ELSE assets.projectNodeModulesDir,
                              call.name)

\* "dep" imported by /p/node_modules/frida-compiler/index.js resolves to the
\* dep installed next to the shims
C28_SiblingOfCompiler ==
    /\ ResolveCalled
    /\ call.referrer = ProjectPkg("frida-compiler", <<"index", "js">>)
    /\ call.name = Bare("dep")
    /\ assets.shimDir # assets.projectNodeModulesDir
    /\ call.res.ok
    /\ call.res.path = ShimPkg("dep", <<"index", "js">>)

(***************************************************************************)
(* C29: the directory step and the ".js" retry of the resolver.            *)
(***************************************************************************)
\* C29: a path that is a directory with a package.json is replaced by the
\* manifest's module field, else its main field, else index.js, under that
\* directory, with index.js appended when that is a directory again, and
\* needs-alias becomes true; a directory without package.json gets index.js
\* appended and keeps its needs-alias; a resulting path that is not a file
\* gets ".js" appended once, and the reference is unresolvable when that is
\* not a file either.
C29_DirectoryStep ==
    ResolveCalled =>
        LET modPath == call.base.path
            manifest == join(modPath, PackageJson)
        IN /\ (directoryExists(files, modPath) /\ fileExists(files, manifest)) =>
                  LET chosen == IF files[manifest].module # <<>> THEN files[manifest].module
                                ELSE IF files[manifest].main # <<>> THEN files[manifest].main
                                ELSE IndexJs
                      entry == join(modPath, chosen)
                  IN /\ call.dir.path = IF directoryExists(files, entry)
                                        THEN join(entry, IndexJs) ELSE entry
                     /\ call.dir.needsAlias
           /\ (directoryExists(files, modPath) /\ ~fileExists(files, manifest)) =>
                  /\ call.dir.path = join(modPath, IndexJs)
                  /\ call.dir.needsAlias = call.base.needsAlias
           /\ ~directoryExists(files, modPath) => call.dir = call.base
           /\ IF fileExists(files, call.dir.path)
              THEN call.res = [ok |-> TRUE, path |-> call.dir.path,
                               needsAlias |-> call.dir.needsAlias]
              ELSE IF fileExists(files, AppendExt(call.dir.path, "js"))
              THEN call.res = [ok |-> TRUE, path |-> AppendExt(call.dir.path, "js"),
                               needsAlias |-> call.dir.needsAlias]
              ELSE ~call.res.ok

\* "legacy", whose manifest has "main": "lib", a directory, resolves to
\* lib/index.js under it
C29_Witness ==
    /\ ResolveCalled
    /\ call.name = Bare("legacy")
    /\ call.base = [path |-> Abs(<< <<"p">>, <<"node_modules">>, <<"legacy">> >>),
                    needsAlias |-> FALSE]
    /\ files[join(call.base.path, PackageJson)].main = << <<"lib">> >>
    /\ directoryExists(files, join(call.base.path, << <<"lib">> >>))
    /\ call.res = [ok |-> TRUE,
                   path |-> Abs(<< <<"p">>, <<"node_modules">>, <<"legacy">>, <<"lib">>,
                                   <<"index", "js">> >>),
                   needsAlias |-> TRUE]

(***************************************************************************)
(* C30: detectModuleType.                                                  *)
(***************************************************************************)
\* the directories from the parent of the path up to the root, by the
\* number of their segments, that hold a package.json
ManifestDepths(modPath) ==
    { k \in (IF isAbsolute(modPath) THEN 1 ELSE 0)..(Len(modPath) - 1) :
          fileExists(files, SubSeq(modPath, 1, k) \o PackageJson) }

NearestManifest(modPath) ==
    LET k == CHOOSE d \in ManifestDepths(modPath) :
                 \A other \in ManifestDepths(modPath) : other <= d
    IN files[SubSeq(modPath, 1, k) \o PackageJson]

DetectCalled == call.fn = "detect"

\* C30: detectModuleType returns for every path, and classifies a file by
\* the nearest package.json from its parent directory toward the root and
\* by that one only: esm when that manifest has type "module" or a module
\* field, cjs when it has neither, whatever the manifests further up say,
\* and cjs when there is no manifest on the way to the root.
C30_NearestManifest ==
    DetectCalled =>
        call.type = IF ManifestDepths(call.modPath) = {} THEN "cjs"
                    ELSE IF \/ NearestManifest(call.modPath).ptype = "module"
                            \/ NearestManifest(call.modPath).module # <<>>
                    THEN "esm"
                    ELSE "cjs"

\* a file of the package legacy, whose manifest says nothing of modules, in
\* a project whose own manifest has type "module"
C30_Witness ==
    /\ DetectCalled
    /\ call.modPath = Abs(<< <<"p">>, <<"node_modules">>, <<"legacy">>, <<"lib">>,
                             <<"index", "js">> >>)
    /\ fileExists(files, ProjectManifest)
    /\ files[ProjectManifest].ptype = "module"
    /\ Cardinality(ManifestDepths(call.modPath)) = 2
    /\ call.type = "cjs"

(***************************************************************************)
(* C31 .. C32: the scan of a module.                                       *)
(***************************************************************************)
ScanCalled == call.fn = "scan"

\* the nodes of a file in document order: every node before the ones
\* nested in its arguments
RECURSIVE Descendants(_)
RECURSIVE DescendantsOfAll(_, _)
Descendants(node) ==
    <<node>> \o (IF node.k = "call" THEN DescendantsOfAll(node.args, 1) ELSE <<>>)

DescendantsOfAll(nodes, i) ==
    IF i > Len(nodes) THEN <<>>
    ELSE Descendants(nodes[i]) \o DescendantsOfAll(nodes, i + 1)

\* require("name"): the callee is the identifier require, there is one
\* argument, and it is a string literal
IsRequireCall(node) ==
    \/ node.k = "require"
    \/ /\ node.k = "call"
       /\ node.callee = "require"
       /\ Len(node.args) = 1
       /\ node.args[1].k = "string"

IsReference(node, type) ==
    \/ node.k \in {"import", "export"}
    \/ type = "cjs" /\ IsRequireCall(node)

SpecifierOf(node) == IF node.k = "call" THEN node.args[1].text ELSE node.name

References(mod) ==
    LET nodes == SelectSeq(DescendantsOfAll(mod.file.refs, 1),
                           LAMBDA node : IsReference(node, mod.type))
    IN [i \in 1..Len(nodes) |-> SpecifierOf(nodes[i])]

\* C31: the scan gives a reference for every import and for every export
\* with a module specifier, whatever the kind of the module, and for a
\* require call only in a cjs module and only when the callee is the
\* identifier require and the one argument is a string literal; such calls
\* are found inside the arguments of other calls as well.
C31_ScannedReferences ==
    ScanCalled =>
        [i \in 1..Len(call.names) |-> call.names[i].name] = References(call.mod)

\* a cjs module with f(require("gone"), require("dep")) and a call of
\* require with two arguments: the nested calls are found, the other is not
C31_Witness ==
    /\ ScanCalled
    /\ call.mod.type = "cjs"
    /\ call.mod.file.refs =
           << Call("other", <<Call("require", <<StringLiteral(Bare("gone"))>>),
                              Require(Bare("dep"))>>),
              Call("require", <<StringLiteral(Bare("dep")), StringLiteral(Bare("foo"))>>) >>
    /\ call.names = <<Require(Bare("gone")), Require(Bare("dep"))>>

\* the reference a scanned name stands for in the module of the call
Normalized(name) ==
    IF StartsWithDot(name) THEN join(dirname(call.mod.path), name) ELSE name

ScannedSpecifiers == [i \in 1..Len(call.names) |-> call.names[i].name]

\* C32, routing: a name beginning with "." is joined to the directory of
\* the module and is absolute then, any other name is kept; a name ending
\* in .json goes to the JSON path set and not to the queue; any other goes
\* to the end of the queue unless its normalized form is in the processed
\* set.
C32_Routing ==
    ScanCalled =>
        LET queued == SelectSeq(ScannedSpecifiers,
                                LAMBDA name : /\ ~EndsWithExt(name, "json")
                                              /\ Normalized(name) \notin call.processed)
        IN /\ call.st.pendingModules =
                  [i \in 1..Len(queued) |->
                      [name |-> Normalized(queued[i]), referrer |-> call.mod.path]]
           /\ Range(call.st.jsonFilePaths) =
                  {Normalized(name) : name \in {n \in Range(ScannedSpecifiers) :
                                                    EndsWithExt(n, "json")}}
           /\ \A name \in Range(ScannedSpecifiers) :
                  StartsWithDot(name) => isAbsolute(Normalized(name))

\* C32: every scanned reference is normalized and routed as C32_Routing
\* says, and every path in the JSON path set is one the bundler can turn
\* into an asset name.
C32_RoutedAndLoadable ==
    /\ C32_Routing
    /\ ScanCalled =>
           \A path \in Range(call.st.jsonFilePaths) : assetNameFromFilePath(path).ok

\* import "foo/data.json": the name is in the JSON path set as it is
\* written, the file it means is there, and no asset name can be made of it
C32_BareJsonReference ==
    /\ ScanCalled
    /\ call.mod.file.refs = <<Import(FooDataJson)>>
    /\ call.st.jsonFilePaths = <<FooDataJson>>
    /\ fileExists(files, join(assets.projectNodeModulesDir, FooDataJson))
    /\ ~assetNameFromFilePath(FooDataJson).ok

(***************************************************************************)
(* C33: the drain loop ends.                                               *)
(***************************************************************************)
\* the files of the pass that lie on a cycle of references
ScannedTwice == \E i, j \in 1..Len(bundler.scanned) : i # j /\ bundler.scanned[i] = bundler.scanned[j]
ParsedTwice == \E i, j \in 1..Len(bundler.added) : i # j /\ bundler.added[i] = bundler.added[j]

C33_QueueEmptied == Finished => bundler.pendingModules = <<>>

C33_ScannedOnce == ~ScannedTwice /\ ~ParsedTwice

\* C33: whatever cycles and self-imports the module graph has, the drain
\* loop of a pass that has begun ends, the pending queue is empty then, and
\* no file is parsed or scanned twice in one pass.
C33_DrainTerminates ==
    /\ [](C33_QueueEmptied /\ C33_ScannedOnce)
    /\ (pc = "drain") ~> Finished

\* a pass over foo and dep, which import each other, has returned a bundle,
\* and both were scanned
C33_Witness ==
    /\ pc = "returned"
    /\ Import(Bare("dep")) \in Range(files[FooIndexJs].refs)
    /\ Import(Bare("foo")) \in Range(files[DepIndexJs].refs)
    /\ {FooIndexJs, DepIndexJs} \subseteq Range(bundler.scanned)
    /\ bundler.pendingModules = <<>>

(***************************************************************************)
(* C34: what invalidate(path) takes away.                                  *)
(***************************************************************************)
\* the step is the watchFile callback of a path: the file has changed
Invalidated == files' # files
InvalidatedPath == CHOOSE path \in DOMAIN files : files'[path] # files[path]

\* the asset of the path and its cached source are gone, every other asset
\* and every other cached source is as it was
OthersKept(path) ==
    LET name == assetNameFromFilePath(path).name IN
    /\ name \notin DOMAIN bundler'.output
    /\ path \notin DOMAIN bundler'.externalSources
    /\ DOMAIN bundler'.output = (DOMAIN bundler.output) \ {name}
    /\ \A n \in DOMAIN bundler'.output : bundler'.output[n] = bundler.output[n]
    /\ DOMAIN bundler'.externalSources = (DOMAIN bundler.externalSources) \ {path}
    /\ \A q \in DOMAIN bundler'.externalSources :
           bundler'.externalSources[q] = bundler.externalSources[q]

\* the entries of the processed set that are paths of other modules
EntriesOfOthers(path) ==
    {e \in bundler.processedModules :
         e # path /\ \E n \in DOMAIN bundler.modules : bundler.modules[n].path = e}

PassSucceeded == inFlight' < inFlight /\ bundler'.phase = "done"

\* the files the references of the pass resolved to
ReachedFiles(st) == {e.res.path : e \in {x \in st.resolved : x.res.ok}}

\* the bundle holds the asset of the path
InBundle(st, name) ==
    \E i \in 1..Len(st.bundle) : st.bundle[i].t = "size" /\ st.bundle[i].name = name

\* C35: when a pass of the watch has succeeded, every external file its
\* references resolve to, a watched file that has changed since the pass
\* before included, has its asset in the asset table and in the bundle, and
\* the asset is made of the file as it is now.
C35_FreshAfterChange ==
    [][PassSucceeded =>
           \A path \in ReachedFiles(bundler') :
               LET name == assetNameFromFilePath(path).name IN
               /\ name \in DOMAIN bundler'.output
               /\ bundler'.output[name].v = files[path].v
               /\ InBundle(bundler', name)]_vars

\* foo was changed, the debounced pass has returned a bundle, and the
\* bundle has no asset for foo
C35_AssetLost ==
    /\ changes # <<>>
    /\ starts # <<>>
    /\ inFlight = 0
    /\ bundler.phase = "done"
    /\ FooIndexJs \in ReachedFiles(bundler)
    /\ assetNameFromFilePath(FooIndexJs).name \notin DOMAIN bundler.output
    /\ ~InBundle(bundler, assetNameFromFilePath(FooIndexJs).name)

\* the references the scan of the program's sources yields, the JSON ones
\* apart, as maybeAddModuleToPending names them
ProgramReferences ==
    UNION { LET mod == [type |-> "esm", path |-> OutPath(program[i].fileName),
                        file |-> program[i].file, aliases |-> <<>>]
                names == ScannedNames(mod)
            IN { [name |-> RefOf(mod, names[k].name), referrer |-> mod.path] :
                     k \in {j \in 1..Len(names) : ~EndsWithExt(names[j].name, "json")} } :
            i \in 1..Len(program) }

\* C36: a pass of the watch, a pass after the first one on the same bundler
\* included, never succeeds while a reference of the program's sources does
\* not resolve.
C36_NoneUnresolved ==
    [][PassSucceeded =>
           \A ref \in ProgramReferences : resolveModuleReference(ref, assets, files).ok]_vars

\* the debounced pass has returned a bundle although the entrypoint refers
\* to nope, which no file system of the watch holds: the pass before it had
\* put the name into the processed set
C36_SucceededUnresolved ==
    /\ inFlight = 0
    /\ nextTicks = <<>>
    /\ starts # <<>>
    /\ Bare("nope") \in bundler.processedModules
    /\ bundler.phase = "done"
    /\ bundler.bundle # <<>>
    /\ \E ref \in ProgramReferences :
           /\ ref.name = Bare("nope")
           /\ ~resolveModuleReference(ref, assets, files).ok

(***************************************************************************)
(* C37 .. C39: the watch controller, change events and rebundles.          *)
(***************************************************************************)
\* the change event whose timer covers change event i: the latest one up
\* to i that found no timer pending
ArmingChange(i) ==
    CHOOSE a \in 1..i :
        /\ changes[a].armed
        /\ \A b \in (a + 1)..i : ~changes[b].armed

\* when the timer that covers change event i is due
DueTime(i) == changes[ArmingChange(i)].t + DebounceMs

\* C37: every watched-file change event has a timer pending from the
\* moment of the event, due no later than 250 ms after it, also when the
\* event found a timer pending already; time does not pass the due time
\* before the timer has fired, and when it has fired a rebundle has started
\* at the due time, after the invalidation of the event.  No change event
\* is without its rebundle.
C37_ChangeBundled ==
    \A i \in 1..Len(changes) :
        /\ \E a \in 1..i : changes[a].armed /\ \A b \in (a + 1)..i : ~changes[b].armed
        /\ changes[i].t <= DueTime(i)
        /\ DueTime(i) <= changes[i].t + DebounceMs
        /\ \/ timer = DueTime(i) /\ now <= timer
           \/ \E k \in 1..Len(starts) : starts[k] = DueTime(i)

\* a change event that arrived 100 ms or more after the one that armed the
\* timer, while the timer was pending, and the rebundle the timer started
\* has finished
C37_Witness ==
    /\ \E i \in 1..Len(changes) :
           /\ ~changes[i].armed
           /\ changes[i].t > changes[ArmingChange(i)].t
           /\ \E k \in 1..Len(starts) : starts[k] = DueTime(i)
    /\ timer = NoTimer
    /\ inFlight = 0

\* the step is the debounce timer calling rebundle()
DebounceRebundleStarts == Len(starts') > Len(starts)

\* C38: when the debounce timer starts a rebundle, state is dirty: a
\* watched file has changed since the last rebundle started, and a rebundle
\* the front-end started while the timer was pending has not left the timer
\* to start a second pass for the same changes.
C38_DirtyWhenTimerFires ==
    [][DebounceRebundleStarts => state = "dirty"]_vars

\* the timer is pending and due, no change event has come since the
\* front-end's rebundle finished, and state is clean
C38_TimerLeftPending ==
    /\ timer # NoTimer
    /\ now >= timer
    /\ state = "clean"
    /\ inFlight = 0
    /\ nextTicks = <<>>
    /\ emitted.compilationStarting = 2
    /\ emitted.compilationFinished = 2

\* C39: compilationStarting and compilationFinished alternate strictly,
\* compilationStarting first: at any moment either as many of the one as of
\* the other have been emitted, or one compilationStarting more, whatever
\* started the rebundles.
C39_StrictAlternation ==
    emitted.compilationStarting - emitted.compilationFinished \in {0, 1}

\* the rebundle of the debounce timer has emitted a compilationFinished
\* that no compilationStarting came before
C39_FinishedUnannounced ==
    /\ starts # <<>>
    /\ inFlight = 0
    /\ emitted.compilationFinished > emitted.compilationStarting

(***************************************************************************)
(* C40: the JSON assets in the passes after the first one.                 *)
(***************************************************************************)
\* the .json assets an earlier pass has replaced by their module text
SynthesizedJson(st) ==
    {name \in DOMAIN st.output :
         EndsWithExt(name, "json") /\ st.output[name].kind = "jsonmodule"}

\* the step is a bundle() call on the bundler
PassRuns == runs' = runs + 1

\* C40: a pass does not give jsonToModule a .json asset that an earlier
\* pass has already replaced by its module text: the pass does not fail on
\* that asset, and the asset is after the pass what it was before.
C40_JsonRewrittenOnce ==
    [][PassRuns =>
           \A name \in SynthesizedJson(bundler) :
               /\ ~(bundler'.phase = "failed" /\ bundler'.report = <<name>>)
               /\ name \in DOMAIN bundler'.output
               /\ bundler'.output[name] = bundler.output[name]]_vars

\* the second pass over an unchanged data.json has thrown the syntax error
\* of JSON.parse, after a first pass that returned a bundle
C40_SecondPassThrew ==
    /\ runs = 2
    /\ pc = "threw"
    /\ previousRun.phase = "done"
    /\ bundler.error = "json syntax error"
    /\ SynthesizedJson(bundler) # {}

====
